---- MODULE Spec2Model ----
(***************************************************************************)
(* Model of the loan-chat orchestration of backend/app: the per-session    *)
(* state dictionary (agents/state.py, main.py), the workflow router        *)
(* (agents/workflow.py), the master, sales, verification, document,        *)
(* underwriting and sanction handlers, and the websocket turn loop.        *)
(*                                                                         *)
(* Units: amounts are whole rupees, interest rates are hundredths of a     *)
(* percent (900 = 9.0 %), EMIs are paise (hundredths of a rupee).          *)
(* Python's None is the value None for numeric fields and the string       *)
(* "None" for textual fields.                                              *)
(***************************************************************************)
EXTENDS Integers, Sequences, FiniteSets, TLC

(***************************************************************************)
(* Python None for the numeric session fields (main.py initialises         *)
(* loan_amount, tenure_months, interest_rate, emi_amount to None).         *)
(***************************************************************************)
None == -1
NoneStr == "None"

\* Python truthiness of an optional number: None and 0 are falsy.
Truthy(x) == x # None /\ x # 0

\* Python `a or b` on optional numbers.
Or(a, b) == IF Truthy(a) THEN a ELSE b

Max(a, b) == IF a >= b THEN a ELSE b
Min(a, b) == IF a <= b THEN a ELSE b

(***************************************************************************)
(* Character-level helpers for the regular expressions of the extractors.  *)
(***************************************************************************)
Ch(s, i) == IF i >= 1 /\ i <= Len(s) THEN SubSeq(s, i, i) ELSE ""

Digits == {"0", "1", "2", "3", "4", "5", "6", "7", "8", "9"}
LowerLetters == {"a", "b", "c", "d", "e", "f", "g", "h", "i", "j", "k", "l", "m",
                 "n", "o", "p", "q", "r", "s", "t", "u", "v", "w", "x", "y", "z"}
UpperLetters == {"A", "B", "C", "D", "E", "F", "G", "H", "I", "J", "K", "L", "M",
                 "N", "O", "P", "Q", "R", "S", "T", "U", "V", "W", "X", "Y", "Z"}
UpperSeq == "ABCDEFGHIJKLMNOPQRSTUVWXYZ"
LowerSeq == "abcdefghijklmnopqrstuvwxyz"

IsDigit(c) == c \in Digits
\* \w of the re module: letters, digits, underscore.
IsWord(c) == c \in Digits \cup LowerLetters \cup UpperLetters \cup {"_"}
IsSpace(c) == c = " "

DigitVal(c) ==
    CASE c = "0" -> 0 [] c = "1" -> 1 [] c = "2" -> 2 [] c = "3" -> 3 [] c = "4" -> 4
      [] c = "5" -> 5 [] c = "6" -> 6 [] c = "7" -> 7 [] c = "8" -> 8 [] c = "9" -> 9

LowerCh(c) ==
    IF c \in UpperLetters
    THEN Ch(LowerSeq, CHOOSE i \in 1..26 : Ch(UpperSeq, i) = c)
    ELSE c
UpperCh(c) ==
    IF c \in LowerLetters
    THEN Ch(UpperSeq, CHOOSE i \in 1..26 : Ch(LowerSeq, i) = c)
    ELSE c

RECURSIVE MapFrom(_, _, _, _)
\* str.lower() (up = FALSE) / str.upper() (up = TRUE) of s[i..j], by halves.
MapFrom(s, i, j, up) ==
    IF i > j THEN ""
    ELSE IF i = j THEN (IF up THEN UpperCh(Ch(s, i)) ELSE LowerCh(Ch(s, i)))
    ELSE LET m == (i + j) \div 2
         IN  MapFrom(s, i, m, up) \o MapFrom(s, m + 1, j, up)
Lower(s) == MapFrom(s, 1, Len(s), FALSE)
Upper(s) == MapFrom(s, 1, Len(s), TRUE)

RECURSIVE LStrip(_)
LStrip(s) == IF Len(s) > 0 /\ IsSpace(Ch(s, 1)) THEN LStrip(SubSeq(s, 2, Len(s))) ELSE s
RECURSIVE RStrip(_)
RStrip(s) ==
    IF Len(s) > 0 /\ IsSpace(Ch(s, Len(s))) THEN RStrip(SubSeq(s, 1, Len(s) - 1)) ELSE s
\* str.strip()
Strip(s) == LStrip(RStrip(s))

\* s[i:i+len(w)] == w
MatchAt(s, i, w) == i >= 1 /\ i + Len(w) - 1 <= Len(s) /\ SubSeq(s, i, i + Len(w) - 1) = w
\* `w in s`
Contains(s, w) == \E i \in 1..(Len(s) + 1) : MatchAt(s, i, w)
\* any(w in s for w in ws)
ContainsAny(s, ws) == \E w \in ws : Contains(s, w)

\* \b between positions i-1 and i (1-based; i = Len+1 is the end of the string).
Boundary(s, i) == IsWord(Ch(s, i - 1)) # IsWord(Ch(s, i))

RECURSIVE DigitsEnd(_, _)
\* First position at or after i that holds no digit (greedy \d*).
DigitsEnd(s, i) == IF IsDigit(Ch(s, i)) THEN DigitsEnd(s, i + 1) ELSE i

RECURSIVE SpacesEnd(_, _)
\* First position at or after i that holds no whitespace (greedy \s*).
SpacesEnd(s, i) == IF IsSpace(Ch(s, i)) THEN SpacesEnd(s, i + 1) ELSE i

RECURSIVE IntOf(_, _, _)
\* int() of the digits s[i..j-1]
IntOf(s, i, j) == IF j <= i THEN 0 ELSE IntOf(s, i, j - 1) * 10 + DigitVal(Ch(s, j - 1))

RECURSIVE Pow10(_)
Pow10(n) == IF n <= 0 THEN 1 ELSE 10 * Pow10(n - 1)

\* The least element of a non-empty set of positions (leftmost match of re.search).
Least(S) == CHOOSE x \in S : \A y \in S : x <= y


(***************************************************************************)
(* MasterAgentLLM: signal extraction (master_agent_llm.py).                *)
(***************************************************************************)

\* (?:u1|u2|...)\b at position p
UnitAt(s, p, units) == \E u \in units : MatchAt(s, p, u) /\ Boundary(s, p + Len(u))

\* the units of (?:lakh|lakhs|lac|l)\b
master_lakh_unit == {"lakh", "lakhs", "lac", "l"}

\* float(group) * 100000 for the number s[i..j-1] with optional fraction s[j+1..k-1]
LakhValue(s, i, j, k) ==
    IntOf(s, i, j) * 100000
      + (IF k > j + 1 THEN (IntOf(s, j + 1, k) * 100000) \div Pow10(k - j - 1) ELSE 0)

\* (\d+(?:\.\d+)?)\s*UNIT anchored at start position i; None when it does not match.
LakhAt(s, i, units) ==
    LET j == DigitsEnd(s, i)
        k == IF Ch(s, j) = "." /\ IsDigit(Ch(s, j + 1)) THEN DigitsEnd(s, j + 1) ELSE j
    IN  IF ~IsDigit(Ch(s, i)) THEN None
        ELSE IF k > j /\ UnitAt(s, SpacesEnd(s, k), units) THEN LakhValue(s, i, j, k)
        ELSE IF UnitAt(s, SpacesEnd(s, j), units) THEN LakhValue(s, i, j, j)
        ELSE None

\* re.search: the match at the leftmost start position
LakhSearch(s, units) ==
    LET starts == {i \in 1..Len(s) : LakhAt(s, i, units) # None}
    IN  IF starts = {} THEN None ELSE LakhAt(s, Least(starts), units)

\* (\d+)\s*k\b (spaces allowed) or (\d+)k\b (spaces = FALSE) anchored at i
KAt(s, i, spaces) ==
    LET j == DigitsEnd(s, i)
        p == IF spaces THEN SpacesEnd(s, j) ELSE j
    IN  IF IsDigit(Ch(s, i)) /\ Ch(s, p) = "k" /\ Boundary(s, p + 1)
        THEN IntOf(s, i, j) * 1000 ELSE None

KSearch(s, spaces) ==
    LET starts == {i \in 1..Len(s) : KAt(s, i, spaces) # None}
    IN  IF starts = {} THEN None ELSE KAt(s, Least(starts), spaces)

\* The ASCII members of the character class [<rupee sign>rs\.]
CurrencyClass == {"r", "s", "."}

RECURSIVE ClassEnd(_, _)
ClassEnd(s, i) == IF Ch(s, i) \in CurrencyClass THEN ClassEnd(s, i + 1) ELSE i

RECURSIVE DigitsCommaEnd(_, _)
\* greedy [\d,]*
DigitsCommaEnd(s, i) ==
    IF IsDigit(Ch(s, i)) \/ Ch(s, i) = "," THEN DigitsCommaEnd(s, i + 1) ELSE i

RECURSIVE IntSkipComma(_, _, _)
\* float(s[i..j-1].replace(',', ''))
IntSkipComma(s, i, j) ==
    IF j <= i THEN 0
    ELSE IF Ch(s, j - 1) = "," THEN IntSkipComma(s, i, j - 1)
    ELSE IntSkipComma(s, i, j - 1) * 10 + DigitVal(Ch(s, j - 1))

\* [<rupee sign>rs\.]+\s*(\d[\d,]*) anchored at i
master_rupee_at(s, i) ==
    LET d == SpacesEnd(s, ClassEnd(s, i))
    IN  IF Ch(s, i) \in CurrencyClass /\ IsDigit(Ch(s, d))
        THEN IntSkipComma(s, d, DigitsCommaEnd(s, d)) ELSE None

master_rupee_search(s) ==
    LET starts == {i \in 1..Len(s) : master_rupee_at(s, i) # None}
    IN  IF starts = {} THEN None ELSE master_rupee_at(s, Least(starts))

\* \b(\d{lo,hi})\b anchored at i (hi = 0: no upper limit)
PlainAt(s, i, lo, hi) ==
    LET j == DigitsEnd(s, i)
    IN  IF IsDigit(Ch(s, i)) /\ Boundary(s, i) /\ j - i >= lo /\ (hi = 0 \/ j - i <= hi)
           /\ Boundary(s, j)
        THEN IntOf(s, i, j) ELSE None

PlainSearch(s, lo, hi) ==
    LET starts == {i \in 1..Len(s) : PlainAt(s, i, lo, hi) # None}
    IN  IF starts = {} THEN None ELSE PlainAt(s, Least(starts), lo, hi)

\* _extract_amount trying the thousands before the lakhs
master_extract_amount_k_first(text) ==
    LET text_lower == Lower(text)
        lakh == LakhSearch(text_lower, master_lakh_unit)
        k == KSearch(text_lower, TRUE)
        rupee == master_rupee_search(text_lower)
    IN  IF k # None THEN k
        ELSE IF lakh # None THEN lakh
        ELSE IF rupee # None THEN rupee
        ELSE PlainSearch(text, 5, 7)

\* MasterAgentLLM._extract_amount: first matching pattern wins.
master_extract_amount(text) ==
    LET text_lower == Lower(text)
        lakh == LakhSearch(text_lower, master_lakh_unit)
        k == KSearch(text_lower, TRUE)
        rupee == master_rupee_search(text_lower)
    IN  IF lakh # None THEN lakh
        ELSE IF k # None THEN k
        ELSE IF rupee # None THEN rupee
        ELSE PlainSearch(text, 5, 7)

\* MasterAgentLLM._extract_purpose: first category (in dict order) with a keyword in msg.
master_purposes ==
    << <<"home", {"home", "house", "flat", "apartment", "property", "renovation"}>>,
       <<"car", {"car", "vehicle", "bike", "scooter", "two wheeler"}>>,
       <<"wedding", {"wedding", "marriage", "shaadi"}>>,
       <<"education", {"education", "study", "college", "university", "course"}>>,
       <<"medical", {"medical", "hospital", "treatment", "surgery", "health"}>>,
       <<"travel", {"travel", "vacation", "trip", "holiday"}>>,
       <<"business", {"business", "startup", "shop"}>>,
       <<"personal", {"personal", "emergency", "urgent"}>> >>

PurposeOf(msg, table) ==
    LET hits == {i \in 1..Len(table) : ContainsAny(msg, table[i][2])}
    IN  IF hits = {} THEN NoneStr ELSE table[Least(hits)][1]

master_extract_purpose(msg) == PurposeOf(msg, master_purposes)

\* (\d+)\s*(?:u1|u2|...) anchored at i, with a trailing \b when bounded
TenureAt(s, i, units, bounded) ==
    LET j == DigitsEnd(s, i)
        p == SpacesEnd(s, j)
    IN  IF IsDigit(Ch(s, i))
           /\ \E u \in units : MatchAt(s, p, u) /\ (bounded => Boundary(s, p + Len(u)))
        THEN IntOf(s, i, j) ELSE None

TenureSearch(s, units, bounded) ==
    LET starts == {i \in 1..Len(s) : TenureAt(s, i, units, bounded) # None}
    IN  IF starts = {} THEN None ELSE TenureAt(s, Least(starts), units, bounded)

YearUnits == {"year", "years", "yr", "yrs"}
MonthUnits == {"month", "months", "mon"}

\* MasterAgentLLM._extract_tenure (months)
master_extract_tenure(msg) ==
    LET y == TenureSearch(msg, YearUnits, FALSE)
        m == TenureSearch(msg, MonthUnits, FALSE)
    IN  IF y # None THEN y * 12 ELSE m

\* MasterAgentLLM._detect_intent
master_detect_intent(msg, original) ==
    IF Truthy(master_extract_amount(original)) THEN "amount_provided"
    ELSE IF ContainsAny(msg, {"made up my mind", "decided", "i'm ready", "im ready",
                              "let's do it", "go ahead", "proceed", "i want to",
                              "i need to"}) THEN "agreement"
    ELSE IF ContainsAny(msg, {"need", "want", "require", "looking for"})
            /\ ContainsAny(msg, {"loan", "money", "funds"}) THEN "loan_need"
    ELSE IF msg \in {"yes", "ok", "okay", "sure", "yep", "yeah", "fine", "alright"}
         THEN "simple_yes"
    ELSE IF Contains(msg, "?") \/ ContainsAny(msg, {"what", "how", "why", "when"})
         THEN "question"
    ELSE IF ContainsAny(msg, {"not sure", "think about", "too expensive", "too high"})
         THEN "hesitation"
    ELSE IF msg \in {"hi", "hello", "hey"}
            \/ \E g \in {"hi ", "hello ", "hey "} : MatchAt(msg, 1, g) THEN "greeting"
    ELSE "general"

\* MasterAgentLLM._extract_all_info; absent keys are None / "None".
master_extract_all_info(message) ==
    LET msg == Strip(Lower(message))
        amount == master_extract_amount(message)
        tenure == master_extract_tenure(msg)
    IN  [amount |-> IF Truthy(amount) THEN amount ELSE None,
         purpose |-> master_extract_purpose(msg),
         tenure |-> IF Truthy(tenure) THEN tenure ELSE None,
         intent |-> master_detect_intent(msg, message)]

(***************************************************************************)
(* SalesAgent: signal extraction (sales_agent.py).                         *)
(***************************************************************************)

\* the units of (?:lakh|lakhs|l)\b
sales_lakh_unit == {"lakh", "lakhs", "l"}

RECURSIVE GroupsEnd(_, _)
\* end of \d+(?:,\d+)* whose first digit run ends at e
GroupsEnd(s, e) ==
    IF Ch(s, e) = "," /\ IsDigit(Ch(s, e + 1)) THEN GroupsEnd(s, DigitsEnd(s, e + 1)) ELSE e

\* [<rupee sign>rs\.]\s*(\d+(?:,\d+)*(?:\.\d+)?) anchored at i; the rupee part of the
\* number (a fraction of a rupee after the point is not represented).
sales_rupee_at(s, i) ==
    LET d == SpacesEnd(s, i + 1)
    IN  IF Ch(s, i) \in CurrencyClass /\ IsDigit(Ch(s, d))
        THEN IntSkipComma(s, d, GroupsEnd(s, DigitsEnd(s, d))) ELSE None

sales_rupee_search(s) ==
    LET starts == {i \in 1..Len(s) : sales_rupee_at(s, i) # None}
    IN  IF starts = {} THEN None ELSE sales_rupee_at(s, Least(starts))

\* SalesAgent._extract_amount
sales_extract_amount(message) ==
    LET text == Lower(message)
        lakh == LakhSearch(text, sales_lakh_unit)
        k == KSearch(text, FALSE)
        rupee == sales_rupee_search(text)
    IN  IF lakh # None THEN lakh
        ELSE IF k # None THEN k
        ELSE IF rupee # None THEN rupee
        ELSE PlainSearch(text, 5, 0)

\* SalesAgent._extract_tenure
sales_extract_tenure(message) ==
    LET text == Lower(message)
        y == TenureSearch(text, YearUnits, TRUE)
        m == TenureSearch(text, MonthUnits, TRUE)
    IN  IF y # None THEN y * 12 ELSE m

sales_purposes ==
    << <<"car", {"car", "vehicle", "bike", "scooter"}>>,
       <<"home", {"home", "house", "flat", "renovation", "interior"}>>,
       <<"wedding", {"wedding", "marriage", "shaadi"}>>,
       <<"education", {"education", "study", "college", "course"}>>,
       <<"medical", {"medical", "hospital", "treatment", "surgery"}>>,
       <<"travel", {"travel", "vacation", "trip", "holiday"}>>,
       <<"business", {"business", "startup", "shop"}>>,
       <<"debt_consolidation", {"debt", "loan", "emi", "consolidate"}>>,
       <<"emergency", {"emergency", "urgent", "immediate"}>> >>

\* SalesAgent._extract_purpose
sales_extract_purpose(message) == PurposeOf(Lower(message), sales_purposes)

\* SalesAgent._analyze_sales_intent
analyze_sales_intent(message) ==
    LET msg == Strip(Lower(message))
    IN  IF Truthy(sales_extract_amount(message)) THEN "amount_provided"
        ELSE IF msg \in {"yes", "ok", "okay", "sure", "yep", "yeah", "fine", "alright",
                         "proceed", "go ahead"} THEN "agreement"
        ELSE IF ContainsAny(msg, {"let's do", "lets do", "go ahead", "proceed", "i want",
                                  "i need"}) THEN "agreement"
        ELSE IF Contains(msg, "?")
                \/ ContainsAny(msg, {"what", "how", "why", "when", "tell me", "explain"})
             THEN "question"
        ELSE IF ContainsAny(msg, {"expensive", "too high", "too much", "can't afford",
                                  "not sure", "think about", "maybe later"})
             THEN "hesitation"
        ELSE "general"

(***************************************************************************)
(* Multi-limb naturals (little-endian sequences of base-10^4 limbs) for    *)
(* the amortisation formula, whose intermediate products exceed 32 bits.   *)
(***************************************************************************)
Limb == 10000

RECURSIVE BigNorm(_)
BigNorm(a) == IF Len(a) > 0 /\ a[Len(a)] = 0 THEN BigNorm(SubSeq(a, 1, Len(a) - 1)) ELSE a

RECURSIVE BigFromInt(_)
BigFromInt(x) == IF x = 0 THEN <<>> ELSE <<x % Limb>> \o BigFromInt(x \div Limb)

RECURSIVE BigMulSmallC(_, _, _)
\* a * k + carry, for 0 <= k < 200000
BigMulSmallC(a, k, carry) ==
    IF Len(a) = 0 THEN BigFromInt(carry)
    ELSE LET t == a[1] * k + carry
         IN  <<t % Limb>> \o BigMulSmallC(Tail(a), k, t \div Limb)
BigMulSmall(a, k) == BigNorm(BigMulSmallC(a, k, 0))

RECURSIVE BigAddC(_, _, _)
BigAddC(a, b, carry) ==
    IF Len(a) = 0 /\ Len(b) = 0 THEN BigFromInt(carry)
    ELSE LET x == IF Len(a) = 0 THEN 0 ELSE a[1]
             y == IF Len(b) = 0 THEN 0 ELSE b[1]
             t == x + y + carry
         IN  <<t % Limb>> \o BigAddC(IF Len(a) = 0 THEN a ELSE Tail(a),
                                     IF Len(b) = 0 THEN b ELSE Tail(b), t \div Limb)
BigAdd(a, b) == BigNorm(BigAddC(a, b, 0))

RECURSIVE BigSubC(_, _, _)
\* a - b - borrow, for a >= b
BigSubC(a, b, borrow) ==
    IF Len(a) = 0 THEN <<>>
    ELSE LET y == IF Len(b) = 0 THEN 0 ELSE b[1]
             t == a[1] - y - borrow
         IN  <<(t + Limb) % Limb>>
               \o BigSubC(Tail(a), IF Len(b) = 0 THEN b ELSE Tail(b), IF t < 0 THEN 1 ELSE 0)
BigSub(a, b) == BigNorm(BigSubC(a, b, 0))

RECURSIVE BigLeqN(_, _, _)
\* a <= b for normalised a, b of equal length, comparing from limb i downwards
BigLeqN(a, b, i) ==
    IF i = 0 THEN TRUE
    ELSE IF a[i] # b[i] THEN a[i] < b[i]
    ELSE BigLeqN(a, b, i - 1)
BigLeq(a, b) ==
    IF Len(a) # Len(b) THEN Len(a) < Len(b) ELSE BigLeqN(a, b, Len(a))

RECURSIVE BigMul(_, _)
BigMul(a, b) ==
    IF Len(a) = 0 \/ Len(b) = 0 THEN <<>>
    ELSE BigAdd(BigMulSmall(a, b[1]), BigNorm(<<0>> \o BigMul(a, Tail(b))))

RECURSIVE BigDivSmallR(_, _, _)
\* floor(a / k) for 0 < k < 200000, limbs from the high end; rem is the running remainder
BigDivSmallR(a, k, rem) ==
    IF Len(a) = 0 THEN <<>>
    ELSE LET t == rem * Limb + a[Len(a)]
         IN  BigDivSmallR(SubSeq(a, 1, Len(a) - 1), k, t % k) \o <<t \div k>>
BigDivSmall(a, k) == BigNorm(BigDivSmallR(a, k, 0))

RECURSIVE MaxDigit(_, _, _, _)
\* the largest q in lo..hi with d * q <= r (d * lo <= r is given)
MaxDigit(d, r, lo, hi) ==
    IF lo = hi THEN lo
    ELSE LET mid == (lo + hi + 1) \div 2
         IN  IF BigLeq(BigMulSmall(d, mid), r) THEN MaxDigit(d, r, mid, hi)
             ELSE MaxDigit(d, r, lo, mid - 1)

\* one limb of the long division: q is the quotient so far, r the running remainder
BigDivDigit(q, r, d, qd) == [q |-> q * Limb + qd, r |-> BigSub(r, BigMulSmall(d, qd))]
BigDivLimb(q, r, d) == BigDivDigit(q, r, d, MaxDigit(d, r, 0, Limb - 1))
\* prev is the division of the higher limbs, limb the next lower limb of the dividend
BigDivStep(prev, limb, d) == BigDivLimb(prev.q, BigNorm(<<limb>> \o prev.r), d)

RECURSIVE BigDivR(_, _)
\* schoolbook long division of n by d (d > 0), from the high limb down:
\* the integer quotient q and the remainder r (as limbs)
BigDivR(n, d) ==
    IF Len(n) = 0 THEN [q |-> 0, r |-> <<>>]
    ELSE BigDivStep(BigDivR(Tail(n), d), n[1], d)

(***************************************************************************)
(* SalesAgent: offer calculators (sales_agent.py).                         *)
(***************************************************************************)

\* _calculate_interest_rate with the surcharge from amount >= pre_approved on
calculate_interest_rate_at_limit(amount, st) ==
    LET credit_score == Or(st.credit_score, 700)
        pre_approved == Or(st.pre_approved_limit, 0)
        by_score == IF credit_score >= 800 THEN 900
                    ELSE IF credit_score >= 750 THEN 950
                    ELSE IF credit_score >= 700 THEN 1000
                    ELSE 1050
    IN  IF Truthy(pre_approved) /\ amount >= pre_approved THEN by_score + 100 ELSE by_score

\* SalesAgent._calculate_interest_rate, in hundredths of a percent.
calculate_interest_rate(amount, st) ==
    LET credit_score == Or(st.credit_score, 700)
        pre_approved == Or(st.pre_approved_limit, 0)
        base_rate == 1050
        by_score == IF credit_score >= 800 THEN base_rate - 150
                    ELSE IF credit_score >= 750 THEN base_rate - 100
                    ELSE IF credit_score >= 700 THEN base_rate - 50
                    ELSE base_rate
    IN  IF Truthy(pre_approved) /\ amount > pre_approved THEN by_score + 100 ELSE by_score

\* _suggest_tenure rounding to the nearest multiple of 12
suggest_tenure_nearest(amount, salary) ==
    LET suggested_tenure == (amount * 200) \div (salary * 63)
    IN  Max(12, Min(60, ((suggested_tenure + 6) \div 12) * 12))

\* SalesAgent._suggest_tenure: int(amount / (salary * 0.35 * 0.9)), i.e.
\* floor(amount * 200 / (salary * 63)), rounded down to a multiple of 12 in [12, 60].
suggest_tenure(amount, salary) ==
    LET suggested_tenure == (amount * 200) \div (salary * 63)
    IN  Max(12, Min(60, (suggested_tenure \div 12) * 12))

\* 10^16 as limbs: the fixed-point unit of the growth factor (1 + monthly_rate)^tenure.
FixedOne == <<0, 0, 0, 0, 1>>

\* prod / 10^16: the four low limbs are dropped
FixDrop(prod) == IF Len(prod) <= 4 THEN <<>> ELSE SubSeq(prod, 5, Len(prod))

\* a * b / 10^16 on fixed-point numbers
FixMul(a, b) == IF Len(a) = 0 \/ Len(b) = 0 THEN <<>> ELSE FixDrop(BigMul(a, b))

\* half * half, times g when n is odd
FixSquare(half, g, n) ==
    IF n % 2 = 0 THEN FixMul(half, half) ELSE FixMul(FixMul(half, half), g)

RECURSIVE FixPow(_, _)
\* g ** n by repeated squaring
FixPow(g, n) ==
    IF n = 0 THEN FixedOne
    ELSE IF n = 1 THEN g
    ELSE FixSquare(FixPow(g, n \div 2), g, n)

\* (1 + rate/120000)^n in units of 10^-16 (rate in hundredths of a percent per year)
Growth(rate, n) ==
    FixPow(BigDivSmall(BigMulSmall(FixedOne, 120000 + rate), 120000), n)

\* SalesAgent._calculate_emi, in paise: principal in rupees, rate in hundredths of a
\* percent, tenure in months. round(x, 2) is taken as round-half-up of
\* principal * r * g / (g - 1) with r = rate/120000 and g = (1 + r)^tenure.
\* num / den rounded half up
RoundDiv(num, den) == BigDivR(BigAdd(BigMulSmall(num, 2), den), BigMulSmall(den, 2)).q

\* round(principal * r * g / (g - 1), 2) in paise, for the growth factor g
emi_from_growth(principal, rate, g) ==
    IF BigLeq(g, FixedOne) THEN 0
    ELSE RoundDiv(BigMul(BigMulSmall(g, rate), BigFromInt(principal)),
                  BigMulSmall(BigSub(g, FixedOne), 1200))

\* _calculate_emi without interest
calculate_emi_flat(principal, rate, tenure) == (principal * 100) \div tenure

calculate_emi(principal, rate, tenure) ==
    IF rate = 0 THEN (principal * 100) \div tenure
    ELSE emi_from_growth(principal, rate, Growth(rate, tenure))

(***************************************************************************)
(* UnderwritingAgent: decision rules (underwriting_agent.py).              *)
(***************************************************************************)

\* _make_decision with rules 1 and 2 exchanged: the amount is compared with the
\* limit before the score is looked at
make_decision_limit_first(credit_score, loan_amount, pre_approved_limit, monthly_salary, emi_amount) ==
    IF loan_amount <= pre_approved_limit
    THEN [status |-> "approved", reason |-> NoneStr, alternative_amount |-> None]
    ELSE IF credit_score < 700
    THEN [status |-> "rejected", reason |-> "credit_score",
          alternative_amount |-> IF pre_approved_limit > 0 THEN pre_approved_limit * 50
                                 ELSE 100000 * 100]
    ELSE IF loan_amount <= pre_approved_limit * 2
    THEN IF Truthy(monthly_salary) /\ monthly_salary > 0
         THEN IF emi_amount * 2 <= monthly_salary * 100
              THEN [status |-> "approved", reason |-> NoneStr, alternative_amount |-> None]
              ELSE [status |-> "rejected", reason |-> "emi_to_income",
                    alternative_amount |-> pre_approved_limit * 100]
         ELSE [status |-> "needs_documents", reason |-> NoneStr, alternative_amount |-> None]
    ELSE [status |-> "rejected", reason |-> "amount_too_high",
          alternative_amount |-> pre_approved_limit * 100]

\* _make_decision with the income test emi_amount < monthly_salary * 0.5
make_decision_strict_income(credit_score, loan_amount, pre_approved_limit, monthly_salary, emi_amount) ==
    IF credit_score < 700
    THEN [status |-> "rejected", reason |-> "credit_score",
          alternative_amount |-> IF pre_approved_limit > 0 THEN pre_approved_limit * 50
                                 ELSE 100000 * 100]
    ELSE IF loan_amount <= pre_approved_limit
    THEN [status |-> "approved", reason |-> NoneStr, alternative_amount |-> None]
    ELSE IF loan_amount <= pre_approved_limit * 2
    THEN IF Truthy(monthly_salary) /\ monthly_salary > 0
         THEN IF emi_amount * 2 < monthly_salary * 100
              THEN [status |-> "approved", reason |-> NoneStr, alternative_amount |-> None]
              ELSE [status |-> "rejected", reason |-> "emi_to_income",
                    alternative_amount |-> pre_approved_limit * 100]
         ELSE [status |-> "needs_documents", reason |-> NoneStr, alternative_amount |-> None]
    ELSE [status |-> "rejected", reason |-> "amount_too_high",
          alternative_amount |-> pre_approved_limit * 100]

\* _make_decision with rule 2 as loan_amount < pre_approved_limit
make_decision_below_limit(credit_score, loan_amount, pre_approved_limit, monthly_salary, emi_amount) ==
    IF credit_score < 700
    THEN [status |-> "rejected", reason |-> "credit_score",
          alternative_amount |-> IF pre_approved_limit > 0 THEN pre_approved_limit * 50
                                 ELSE 100000 * 100]
    ELSE IF loan_amount < pre_approved_limit
    THEN [status |-> "approved", reason |-> NoneStr, alternative_amount |-> None]
    ELSE IF loan_amount <= pre_approved_limit * 2
    THEN IF Truthy(monthly_salary) /\ monthly_salary > 0
         THEN IF emi_amount * 2 <= monthly_salary * 100
              THEN [status |-> "approved", reason |-> NoneStr, alternative_amount |-> None]
              ELSE [status |-> "rejected", reason |-> "emi_to_income",
                    alternative_amount |-> pre_approved_limit * 100]
         ELSE [status |-> "needs_documents", reason |-> NoneStr, alternative_amount |-> None]
    ELSE [status |-> "rejected", reason |-> "amount_too_high",
          alternative_amount |-> pre_approved_limit * 100]

\* UnderwritingAgent._make_decision. emi_amount is in paise and alternative_amount
\* is in paise (pre_approved_limit * 0.5 may end in half a rupee); the rejection
\* reason is the name of the rule that rejected.
make_decision(credit_score, loan_amount, pre_approved_limit, monthly_salary, emi_amount) ==
    IF credit_score < 700
    THEN [status |-> "rejected", reason |-> "credit_score",
          alternative_amount |-> IF pre_approved_limit > 0 THEN pre_approved_limit * 50
                                 ELSE 100000 * 100]
    ELSE IF loan_amount <= pre_approved_limit
    THEN [status |-> "approved", reason |-> NoneStr, alternative_amount |-> None]
    ELSE IF loan_amount <= pre_approved_limit * 2
    THEN IF Truthy(monthly_salary) /\ monthly_salary > 0
         THEN IF emi_amount * 2 <= monthly_salary * 100
              THEN [status |-> "approved", reason |-> NoneStr, alternative_amount |-> None]
              ELSE [status |-> "rejected", reason |-> "emi_to_income",
                    alternative_amount |-> pre_approved_limit * 100]
         ELSE [status |-> "needs_documents", reason |-> NoneStr, alternative_amount |-> None]
    ELSE [status |-> "rejected", reason |-> "amount_too_high",
          alternative_amount |-> pre_approved_limit * 100]

\* CreditBureauService._get_rating
get_rating(score) ==
    IF score >= 800 THEN "Excellent"
    ELSE IF score >= 750 THEN "Very Good"
    ELSE IF score >= 700 THEN "Good"
    ELSE IF score >= 650 THEN "Fair"
    ELSE "Poor"

\* [A-Z]{5}[0-9]{4}[A-Z] anchored at i
PanAt(s, i) ==
    /\ \A j \in 0..4 : Ch(s, i + j) \in UpperLetters
    /\ \A j \in 5..8 : IsDigit(Ch(s, i + j))
    /\ Ch(s, i + 9) \in UpperLetters

\* re.search(r"[A-Z]{5}[0-9]{4}[A-Z]", user_message.upper()); "None" when absent
extract_pan(user_message) ==
    LET msg == Upper(user_message)
        starts == {i \in 1..Len(msg) : PanAt(msg, i)}
    IN  IF starts = {} THEN NoneStr
        ELSE SubSeq(msg, Least(starts), Least(starts) + 9)

\* ord() of an upper-case letter or digit
Ord(c) ==
    IF IsDigit(c) THEN 48 + DigitVal(c)
    ELSE 64 + (CHOOSE i \in 1..26 : Ch(UpperSeq, i) = c)

RECURSIVE OrdSum(_, _)
\* sum(ord(c) for c in pan.upper() if c.isalnum()), over pan[1..j]
OrdSum(pan, j) == IF j = 0 THEN 0 ELSE OrdSum(pan, j - 1) + Ord(Ch(pan, j))

\* CreditBureauService.fetch_credit_score_from_pan, simulated score
pan_credit_score(pan) == 650 + (OrdSum(pan, Len(pan)) % 201)

(***************************************************************************)
(* DocumentAgent (document_agent.py).                                      *)
(***************************************************************************)

\* _get_required_documents asking for the bank statement above twice the limit
get_required_documents_twice(loan_amount, pre_approved) ==
    <<"aadhaar", "pan">>
      \o (IF loan_amount > pre_approved THEN <<"salary_slip">> ELSE <<>>)
      \o (IF loan_amount > pre_approved * 2 THEN <<"bank_statement">> ELSE <<>>)

\* DocumentAgent._get_required_documents; pre_approved * 1.5 is exact in a float
\* for the amounts of the model, so loan_amount > pre_approved * 1.5 is compared
\* in halves
get_required_documents(loan_amount, pre_approved) ==
    <<"aadhaar", "pan">>
      \o (IF loan_amount > pre_approved THEN <<"salary_slip">> ELSE <<>>)
      \o (IF loan_amount * 2 > pre_approved * 3 THEN <<"bank_statement">> ELSE <<>>)

\* [doc for doc in required_docs if doc not in uploaded_docs]
pending_of(required_docs, uploaded_docs) ==
    SelectSeq(required_docs, LAMBDA doc : doc \notin uploaded_docs)

(***************************************************************************)
(* The utterances of the model and what the extractors make of them. The   *)
(* extractors are pure, so their results on the utterances of the model    *)
(* are computed once.                                                      *)
(***************************************************************************)

\* what a user says while being onboarded (name, phone, age)
OnboardingMessages == {"hi", "Ravi Kumar", "987-654-3210", "25", "I need a car loan of 5 lakhs"}

\* what a user says in the conversation with the master and sales agents
ConversationMessages ==
    {"hi", "I need a car loan of 5 lakhs", "12 lakhs", "2 lakhs", "yes",
     "i need a loan",
     "not sure", "what is the emi?", "make it 3 years", "for my wedding"}

\* what a user says while verification, documents, underwriting or sanction is pending
WorkerMessages == {"yes", "I need a car loan of 5 lakhs"}

\* The utterances a user sends in the model (non-blank: the loop skips blank ones).
Messages == OnboardingMessages \cup ConversationMessages \cup WorkerMessages

\* f as an explicit table of its values (a function expression is otherwise
\* evaluated anew at every application)
Tabulated(f) == f @@ <<>>

\* An utterance as the agents hear it: its text, what MasterAgentLLM.run reads
\* from it (_extract_all_info(user_message.strip())), and what SalesAgent.run reads
\* from it (_extract_amount, _extract_tenure, _extract_purpose, _analyze_sales_intent).
Heard(m) ==
    [text |-> m,
     master |-> master_extract_all_info(Strip(m)),
     sales |-> [amount |-> sales_extract_amount(m),
                tenure |-> sales_extract_tenure(m),
                purpose |-> sales_extract_purpose(m),
                intent |-> analyze_sales_intent(m)]]

Utterances == {Heard(m) : m \in Messages}

\* the loan amounts, yearly rates and tenures of the offers of the model
OfferAmounts == {200000, 500000, 1200000}
OfferRates == {900, 950, 1000, 1050, 1100, 1150}
OfferTenures == {12, 24, 36, 48, 60}

emi_table ==
    Tabulated([k \in OfferAmounts \X OfferRates \X OfferTenures |->
                  calculate_emi(k[1], k[2], k[3])])

\* the entry of table for key, or otherwise when the table has none
Lookup(table, key, otherwise) == IF key \in DOMAIN table THEN table[key] ELSE otherwise

\* SalesAgent._calculate_emi through the table
emi_of(principal, rate, tenure) ==
    Lookup(emi_table, <<principal, rate, tenure>>, calculate_emi(principal, rate, tenure))

(***************************************************************************)
(* Replies. The text of a reply is abstracted to its origin: LLMText for   *)
(* non-empty generated text, "" for generated text that is empty after     *)
(* strip(), Fallback for the fixed string of an except branch, Scripted    *)
(* for a reply written out in the handler. Python truthiness of a reply is *)
(* non-emptiness.                                                          *)
(***************************************************************************)
LLMText == "llm"
Fallback == "fallback"
Scripted == "scripted"
LLMOutcomes == {"text", "empty", "raise"}

\* the reply without the except branch's text: a failed call leaves the reply empty
llm_reply_no_fallback(outcome) == IF outcome = "text" THEN LLMText ELSE ""

\* try: (await llm.ainvoke(messages)).content.strip()  except Exception: <fallback>
llm_reply(outcome) ==
    IF outcome = "text" THEN LLMText ELSE IF outcome = "empty" THEN "" ELSE Fallback

\* dict.update
Update(st, updates) == updates @@ st

(***************************************************************************)
(* MasterAgentLLM: onboarding (master_agent_llm.py).                       *)
(***************************************************************************)

RECURSIVE TitleFrom(_, _, _)
\* str.title() of s[i..j]: a letter is upper-cased after a non-letter, else lower-cased
TitleFrom(s, i, j) ==
    IF i > j THEN ""
    ELSE IF i = j
    THEN IF Ch(s, i - 1) \in LowerLetters \cup UpperLetters
         THEN LowerCh(Ch(s, i)) ELSE UpperCh(Ch(s, i))
    ELSE LET m == (i + j) \div 2
         IN  TitleFrom(s, i, m) \o TitleFrom(s, m + 1, j)
Title(s) == TitleFrom(s, 1, Len(s))

RECURSIVE RemoveFrom(_, _, _, _)
\* s[i..j] without the characters of cs (str.replace(c, "") for each c in cs)
RemoveFrom(s, i, j, cs) ==
    IF i > j THEN ""
    ELSE IF i = j THEN (IF Ch(s, i) \in cs THEN "" ELSE Ch(s, i))
    ELSE LET m == (i + j) \div 2
         IN  RemoveFrom(s, i, m, cs) \o RemoveFrom(s, m + 1, j, cs)

\* re.search(r'[6-9]\d{9}', message.replace(" ", "").replace("-", "")); "None" when absent
extract_phone(message) ==
    LET t == RemoveFrom(message, 1, Len(message), {" ", "-"})
        starts == {i \in 1..Len(t) : /\ Ch(t, i) \in {"6", "7", "8", "9"}
                                     /\ \A j \in 1..9 : IsDigit(Ch(t, i + j))}
    IN  IF starts = {} THEN NoneStr ELSE SubSeq(t, Least(starts), Least(starts) + 9)

\* \b(1[89]|[2-9]\d)\b anchored at i
AgeAt(s, i) ==
    /\ Boundary(s, i)
    /\ \/ Ch(s, i) = "1" /\ Ch(s, i + 1) \in {"8", "9"}
       \/ Ch(s, i) \in (Digits \ {"0", "1"}) /\ IsDigit(Ch(s, i + 1))
    /\ Boundary(s, i + 2)

\* re.search(r'\b(1[89]|[2-9]\d)\b', message) as an int; None when absent
extract_age(message) ==
    LET starts == {i \in 1..Len(message) : AgeAt(message, i)}
    IN  IF starts = {} THEN None ELSE IntOf(message, Least(starts), Least(starts) + 2)

onboarding_greetings == {"hi", "hello", "hey", "hii", "hiii", "namaste"}

\* _handle_onboarding going on to the age once a name is given
handle_onboarding_skipping(st, message) ==
    LET step == st.onboarding_step
        msg_lower == Strip(Lower(message))
        name == Title(Strip(message))
        phone == extract_phone(message)
        age == extract_age(message)
        tail == [bot_response |-> Scripted, next_agent |-> "master"]
        stay == [current_stage |-> "onboarding"]
    IN  IF step = "name"
        THEN IF msg_lower \in onboarding_greetings
             THEN [onboarding_step |-> "name"] @@ tail @@ stay
             ELSE IF Len(name) >= 2 /\ Len(name) <= 50
                     /\ \A i \in 1..Len(name) : ~IsDigit(Ch(name, i))
             THEN [customer_name |-> name, onboarding_step |-> "age"] @@ tail @@ stay
             ELSE [onboarding_step |-> "name"] @@ tail @@ stay
        ELSE IF step = "phone"
        THEN IF phone # NoneStr
             THEN [customer_phone |-> "+91-" \o phone, onboarding_step |-> "age"]
                    @@ tail @@ stay
             ELSE [onboarding_step |-> "phone"] @@ tail @@ stay
        ELSE IF step = "age"
        THEN IF age # None
             THEN [customer_age |-> age, needs_onboarding |-> FALSE,
                   onboarding_step |-> NoneStr, current_stage |-> "greeting"] @@ tail
             ELSE [onboarding_step |-> "age"] @@ tail @@ stay
        ELSE [needs_onboarding |-> FALSE, current_stage |-> "greeting"] @@ tail

\* _handle_onboarding leaving onboarding at the age step whatever the answer
handle_onboarding_any_age(st, message) ==
    LET step == st.onboarding_step
        msg_lower == Strip(Lower(message))
        name == Title(Strip(message))
        phone == extract_phone(message)
        age == extract_age(message)
        tail == [bot_response |-> Scripted, next_agent |-> "master"]
        stay == [current_stage |-> "onboarding"]
    IN  IF step = "name"
        THEN IF msg_lower \in onboarding_greetings
             THEN [onboarding_step |-> "name"] @@ tail @@ stay
             ELSE IF Len(name) >= 2 /\ Len(name) <= 50
                     /\ \A i \in 1..Len(name) : ~IsDigit(Ch(name, i))
             THEN [customer_name |-> name, onboarding_step |-> "phone"] @@ tail @@ stay
             ELSE [onboarding_step |-> "name"] @@ tail @@ stay
        ELSE IF step = "phone"
        THEN IF phone # NoneStr
             THEN [customer_phone |-> "+91-" \o phone, onboarding_step |-> "age"]
                    @@ tail @@ stay
             ELSE [onboarding_step |-> "phone"] @@ tail @@ stay
        ELSE [customer_age |-> age, needs_onboarding |-> FALSE,
              onboarding_step |-> NoneStr, current_stage |-> "greeting"] @@ tail

\* MasterAgentLLM._handle_onboarding: the updates dictionary
handle_onboarding(st, message) ==
    LET step == st.onboarding_step
        msg_lower == Strip(Lower(message))
        name == Title(Strip(message))
        phone == extract_phone(message)
        age == extract_age(message)
        tail == [bot_response |-> Scripted, next_agent |-> "master"]
        stay == [current_stage |-> "onboarding"]
    IN  IF step = "name"
        THEN IF msg_lower \in onboarding_greetings
             THEN [onboarding_step |-> "name"] @@ tail @@ stay
             ELSE IF Len(name) >= 2 /\ Len(name) <= 50
                     /\ \A i \in 1..Len(name) : ~IsDigit(Ch(name, i))
             THEN [customer_name |-> name, onboarding_step |-> "phone"] @@ tail @@ stay
             ELSE [onboarding_step |-> "name"] @@ tail @@ stay
        ELSE IF step = "phone"
        THEN IF phone # NoneStr
             THEN [customer_phone |-> "+91-" \o phone, onboarding_step |-> "age"]
                    @@ tail @@ stay
             ELSE [onboarding_step |-> "phone"] @@ tail @@ stay
        ELSE IF step = "age"
        THEN IF age # None
             THEN [customer_age |-> age, needs_onboarding |-> FALSE,
                   onboarding_step |-> NoneStr, current_stage |-> "greeting"] @@ tail
             ELSE [onboarding_step |-> "age"] @@ tail @@ stay
        ELSE [needs_onboarding |-> FALSE, current_stage |-> "greeting"] @@ tail

(***************************************************************************)
(* MasterAgentLLM: conversation stages (master_agent_llm.py).              *)
(***************************************************************************)
WantsLoan == {"loan_need", "agreement", "simple_yes"}

\* _handle_greeting_with_llm looking at the purpose before the intent
handle_greeting_purpose_first(intent, purpose) ==
    IF purpose # NoneStr THEN <<"persuasion", "master">>
    ELSE IF intent \in WantsLoan THEN <<"discovery", "master">>
    ELSE <<"greeting", "master">>

\* _handle_greeting_with_llm: <<next_stage, next_agent>>
handle_greeting(intent, purpose) ==
    IF intent \in WantsLoan THEN <<"discovery", "master">>
    ELSE IF purpose # NoneStr THEN <<"persuasion", "master">>
    ELSE <<"greeting", "master">>

\* _handle_discovery_with_llm
handle_discovery(intent, purpose) ==
    IF intent \in WantsLoan THEN <<"discovery", "master">>
    ELSE IF purpose # NoneStr THEN <<"persuasion", "master">>
    ELSE IF intent = "question" THEN <<"discovery", "master">>
    ELSE <<"discovery", "master">>

\* _handle_persuasion_with_llm
handle_persuasion(intent, purpose) ==
    IF intent \in WantsLoan THEN <<"offer_presentation", "sales">>
    ELSE IF intent = "hesitation" THEN <<"persuasion", "master">>
    ELSE <<"offer_presentation", "sales">>

\* _decide_action_with_llm without the amount-first rule: the stage alone decides
decide_action_by_stage(extracted, stage, llm) ==
    LET route == IF stage = "greeting" THEN handle_greeting(extracted.intent, extracted.purpose)
                 ELSE IF stage = "discovery"
                 THEN handle_discovery(extracted.intent, extracted.purpose)
                 ELSE IF stage = "persuasion"
                 THEN handle_persuasion(extracted.intent, extracted.purpose)
                 ELSE <<"discovery", "master">>
    IN  [bot_response |-> llm_reply(llm), current_stage |-> route[1],
         next_agent |-> route[2]]

\* MasterAgentLLM._decide_action_with_llm folded into the final_updates of run:
\* every branch composes its reply with one _generate_llm_response call.
decide_action(extracted, stage, llm) ==
    LET route == IF Truthy(extracted.amount) THEN <<"offer_presentation", "sales">>
                 ELSE IF stage = "greeting" THEN handle_greeting(extracted.intent, extracted.purpose)
                 ELSE IF stage = "discovery"
                 THEN handle_discovery(extracted.intent, extracted.purpose)
                 ELSE IF stage = "persuasion"
                 THEN handle_persuasion(extracted.intent, extracted.purpose)
                 ELSE <<"discovery", "master">>
        updates == IF Truthy(extracted.amount)
                   THEN IF extracted.purpose # NoneStr
                        THEN [loan_amount |-> extracted.amount,
                              loan_purpose |-> extracted.purpose]
                        ELSE [loan_amount |-> extracted.amount]
                   ELSE <<>>
    IN  updates @@ [bot_response |-> llm_reply(llm), current_stage |-> route[1],
                    next_agent |-> route[2]]

\* MasterAgentLLM.run: the updates dictionary
master_run(st, heard, llm) ==
    IF st.needs_onboarding THEN handle_onboarding(st, Strip(st.user_message))
    ELSE decide_action(heard.master, st.current_stage, llm)

(***************************************************************************)
(* Mock CRM / credit bureau data (mock_data.py): the customers of the      *)
(* model. Rahul Sharma is KYC-verified with a good score, Amit Kumar is    *)
(* KYC-verified with a score below 700, Anjali Verma has KYC pending.      *)
(***************************************************************************)
MOCK_CUSTOMERS ==
    { [email |-> "rahul.sharma@email.com", name |-> "Rahul Sharma",
       phone |-> "+91-9876543210", age |-> 32, address |-> "123 MG Road, Andheri West, Mumbai 400053",
       kyc_verified |-> TRUE, credit_score |-> 782, pre_approved_limit |-> 500000,
       monthly_salary |-> 85000],
      [email |-> "amit.kumar@email.com", name |-> "Amit Kumar",
       phone |-> "+91-9876543212", age |-> 35, address |-> "789 Connaught Place, New Delhi 110001",
       kyc_verified |-> TRUE, credit_score |-> 695, pre_approved_limit |-> 300000,
       monthly_salary |-> 65000],
      [email |-> "anjali.verma@email.com", name |-> "Anjali Verma",
       phone |-> "+91-9876543215", age |-> 26, address |-> "987 T Nagar, Chennai 600017",
       kyc_verified |-> FALSE, credit_score |-> 720, pre_approved_limit |-> 250000,
       monthly_salary |-> 55000] }

\* get_customer_by_email(email) is not None
is_mock_email(email) == \E c \in MOCK_CUSTOMERS : Lower(c.email) = Lower(email)
\* get_customer_by_email
get_customer_by_email(email) == CHOOSE c \in MOCK_CUSTOMERS : Lower(c.email) = Lower(email)

\* The result of an agent's run: either it raised, or it returned an updates dictionary.
Raised == [raised |-> TRUE, updates |-> <<>>]
Returned(updates) == [raised |-> FALSE, updates |-> updates]

(***************************************************************************)
(* SalesAgent.run (sales_agent.py).                                        *)
(***************************************************************************)
\* the amount of the offer, with the amount of the message taking precedence
message_amount_first(st, said) == Or(said.amount, st.loan_amount)

\* loan_amount = state.get("loan_amount") or self._extract_amount(user_message)
amount_of_offer(st, said) == Or(st.loan_amount, said.amount)

\* the updates of an agreement that go to verification whatever the status
agreement_to_verification(application_status) ==
    [next_agent |-> "verification", current_stage |-> "verification",
     bot_response |-> Scripted]

\* the updates of run when the customer agrees to the offer presented
agreement_updates(application_status) ==
    IF application_status = "needs_documents"
    THEN [next_agent |-> "document", current_stage |-> "document_collection",
          bot_response |-> Scripted]
    ELSE [next_agent |-> "verification", current_stage |-> "verification",
          bot_response |-> Scripted]

\* the limit of the offer taken from the session as it is, without a default
session_limit(st, default) == st.pre_approved_limit

\* pre_approved = state.get("pre_approved_limit") or 500000
limit_of_offer(st, default) == Or(st.pre_approved_limit, default)

\* an agreement taken as acceptance as soon as the session has an amount
agrees_to_amount(intent, loan_amount, emi_presented) ==
    intent = "agreement" /\ Truthy(loan_amount)

\* if intent == "agreement" and loan_amount and emi_presented
agrees(intent, loan_amount, emi_presented) ==
    intent = "agreement" /\ Truthy(loan_amount) /\ emi_presented

\* said: the amount, tenure, purpose and intent read from the message
sales_run(st, said, llm) ==
    LET pre_approved == limit_of_offer(st, 500000)
        monthly_salary == Or(st.monthly_salary, 50000)
        loan_amount == amount_of_offer(st, said)
        tenure == Or(said.tenure, st.tenure_months)
        purpose == IF said.purpose # NoneStr THEN said.purpose ELSE st.loan_purpose
        intent == said.intent
        stay == [bot_response |-> llm_reply(llm), current_stage |-> "sales",
                 next_agent |-> "sales"]
        interest_rate == calculate_interest_rate(loan_amount, st)
        offer_tenure == IF Truthy(tenure) THEN tenure
                        ELSE suggest_tenure(loan_amount, monthly_salary)
        emi == emi_of(loan_amount, interest_rate, offer_tenure)
        offer == [loan_amount |-> loan_amount, interest_rate |-> interest_rate,
                  tenure_months |-> offer_tenure, emi_amount |-> emi,
                  emi_presented |-> TRUE,
                  application_status |->
                      IF loan_amount <= pre_approved THEN "pre_approved"
                      ELSE IF loan_amount <= pre_approved * 2 THEN "needs_documents"
                      ELSE "needs_negotiation"]
    IN  IF intent = "hesitation" THEN Returned(stay)
        ELSE IF intent = "question"
        \* _answer_question formats state.get("loan_amount", 0) with ",.0f": a
        \* TypeError while the key holds None
        THEN IF st.loan_amount = None THEN Raised ELSE Returned(stay)
        ELSE IF agrees(intent, loan_amount, st.emi_presented)
        THEN Returned(agreement_updates(st.application_status))
        ELSE IF Truthy(loan_amount)
        THEN Returned((IF purpose # NoneStr THEN [loan_purpose |-> purpose] ELSE <<>>)
                        @@ offer @@ stay)
        ELSE Returned(stay)

(***************************************************************************)
(* VerificationAgent.run (verification_agent.py). kyc is the outcome of    *)
(* the CRM call: "ok" (it returns) or "raise".                             *)
(***************************************************************************)
\* run sending on to underwriting whatever the CRM reports
verification_result_lenient(st, llm, found, kyc_data) ==
    IF st.loan_amount = None THEN Raised
    ELSE Returned([kyc_verified |-> found /\ kyc_data.kyc_verified,
                   next_agent |-> "underwriting", bot_response |-> llm_reply(llm),
                   current_stage |-> "verification"])

\* run after verify_customer_kyc returned: found is its success flag, kyc_data its data
verification_result(st, llm, found, kyc_data) ==
    LET tail == [bot_response |-> llm_reply(llm), current_stage |-> "verification"]
    IN  IF found
        THEN IF kyc_data.kyc_verified
             \* the scenario text formats loan_amount with ",.0f"
             THEN IF st.loan_amount = None THEN Raised
                  ELSE Returned([kyc_verified |-> TRUE, customer_phone |-> kyc_data.phone,
                                 customer_address |-> kyc_data.address,
                                 next_agent |-> "underwriting"] @@ tail)
             ELSE Returned([kyc_verified |-> FALSE, customer_phone |-> kyc_data.phone,
                            customer_address |-> kyc_data.address,
                            next_agent |-> "document",
                            application_status |-> "needs_documents"] @@ tail)
        ELSE IF st.loan_amount = None THEN Raised
        ELSE Returned([next_agent |-> "document", kyc_verified |-> FALSE,
                       application_status |-> "needs_documents"] @@ tail)

verification_run(st, kyc, llm) ==
    IF kyc = "raise" THEN Raised
    ELSE verification_result(st, llm, is_mock_email(st.customer_email),
                             get_customer_by_email(st.customer_email))

(***************************************************************************)
(* DocumentAgent.run (document_agent.py). The session dictionary never     *)
(* holds an "uploaded_documents" key, so state.get("uploaded_documents",   *)
(* {}) is the empty default.                                               *)
(***************************************************************************)
document_run(st, llm) ==
    LET uploaded_docs == {}
        required_docs == get_required_documents(st.loan_amount, st.pre_approved_limit)
        pending_docs == pending_of(required_docs, uploaded_docs)
    IN  \* loan_amount > pre_approved and the ",.0f" format raise TypeError on None
        IF st.loan_amount = None \/ st.pre_approved_limit = None THEN Raised
        ELSE Returned([bot_response |-> llm_reply(llm),
                       current_stage |-> IF pending_docs = <<>> THEN "underwriting"
                                         ELSE "document_collection",
                       next_agent |-> IF pending_docs = <<>> THEN "underwriting"
                                      ELSE "document",
                       required_documents |-> required_docs,
                       pending_documents |-> pending_docs])

(***************************************************************************)
(* UnderwritingAgent.run (underwriting_agent.py). credit is the outcome of *)
(* the bureau call: "ok", "unavailable" (success false) or "raise"; score  *)
(* is the score the bureau draws for an e-mail it does not know.           *)
(***************************************************************************)
\* the rest of run with a rejection handing the session back to the master agent
underwriting_decide_to_master(st, llm, pan_number, credit_score, decision) ==
    LET tail == [bot_response |-> llm_reply(llm), current_stage |-> "underwriting"]
        scored == (IF pan_number # NoneStr THEN [pan_number |-> pan_number] ELSE <<>>)
                    @@ [credit_score |-> credit_score,
                        credit_rating |-> get_rating(credit_score),
                        awaiting_pan |-> FALSE,
                        application_status |-> decision.status]
    IN  IF decision.status = "approved"
        THEN Returned([next_agent |-> "sanction"] @@ scored @@ tail)
        ELSE IF decision.status = "needs_documents"
        THEN Returned([next_agent |-> "document"] @@ scored @@ tail)
        ELSE Returned([rejection_reason |-> decision.reason, next_agent |-> "master"]
                        @@ scored @@ tail)

\* the rest of run once the bureau has answered with credit_score
underwriting_decide(st, llm, pan_number, credit_score, decision) ==
    LET tail == [bot_response |-> llm_reply(llm), current_stage |-> "underwriting"]
        scored == (IF pan_number # NoneStr THEN [pan_number |-> pan_number] ELSE <<>>)
                    @@ [credit_score |-> credit_score,
                        credit_rating |-> get_rating(credit_score),
                        awaiting_pan |-> FALSE,
                        application_status |-> decision.status]
    IN  IF decision.status = "approved"
        THEN Returned([next_agent |-> "sanction"] @@ scored @@ tail)
        ELSE IF decision.status = "needs_documents"
        THEN Returned([next_agent |-> "document"] @@ scored @@ tail)
        ELSE Returned([rejection_reason |-> decision.reason, next_agent |-> "sales"]
                        @@ scored @@ tail)

\* run from the bureau call on
underwriting_score(st, credit, llm, pan_number, credit_score) ==
    IF credit = "raise" THEN Raised
    ELSE IF credit = "unavailable"
    THEN Returned([next_agent |-> "underwriting", bot_response |-> llm_reply(llm),
                   current_stage |-> "underwriting"])
    \* _make_decision compares with None and _calculate_emi_percentage evaluates
    \* salary <= 0 and emi / salary: TypeError on None
    ELSE IF st.loan_amount = None \/ st.pre_approved_limit = None
            \/ st.monthly_salary = None
            \/ (st.emi_amount = None /\ st.monthly_salary > 0)
    THEN Raised
    ELSE underwriting_decide(st, llm, pan_number, credit_score,
                             make_decision(credit_score, st.loan_amount,
                                           st.pre_approved_limit, st.monthly_salary,
                                           st.emi_amount))

\* run asking for the PAN whenever the session has none, whatever score it stores
underwriting_pan_required(st, credit, score, llm, typed, pan_number) ==
    IF pan_number = NoneStr
    THEN Returned([bot_response |-> Scripted, current_stage |-> "underwriting",
                   next_agent |-> "underwriting", awaiting_pan |-> TRUE])
    ELSE underwriting_score(st, credit, llm, pan_number, pan_credit_score(pan_number))

\* run from the PAN step on: typed is whether the message answers the PAN prompt
underwriting_pan(st, credit, score, llm, typed, pan_number) ==
    LET ask_pan == [bot_response |-> Scripted, current_stage |-> "underwriting",
                    next_agent |-> "underwriting", awaiting_pan |-> TRUE]
    IN  IF typed /\ pan_number = NoneStr THEN Returned(ask_pan)
        ELSE IF pan_number = NoneStr /\ ~Truthy(st.credit_score) THEN Returned(ask_pan)
        ELSE underwriting_score(st, credit, llm, pan_number,
                                IF pan_number # NoneStr THEN pan_credit_score(pan_number)
                                ELSE IF is_mock_email(st.customer_email)
                                THEN get_customer_by_email(st.customer_email).credit_score
                                ELSE score)

\* the message answers the PAN prompt
pan_typed(st) == st.awaiting_pan /\ st.pan_number = NoneStr /\ st.user_message # ""

underwriting_run(st, credit, score, llm) ==
    underwriting_pan(st, credit, score, llm, pan_typed(st),
                     IF pan_typed(st) THEN extract_pan(st.user_message) ELSE st.pan_number)

(***************************************************************************)
(* SanctionAgent.run (sanction_agent.py). pdf is the outcome of            *)
(* pdf_generator.generate_sanction_letter: "ok" or "raise".                *)
(***************************************************************************)
SanctionLetterUrl == "uploads/sanction_letter.pdf"

\* run ending the session itself once the letter is written
sanction_run_ending(st, pdf, llm) ==
    IF pdf = "ok"
    THEN Returned([sanction_letter_url |-> SanctionLetterUrl,
                   application_status |-> "approved", should_end |-> TRUE,
                   current_stage |-> "sanction", bot_response |-> llm_reply(llm),
                   next_agent |-> "completed"])
    ELSE Returned([bot_response |-> llm_reply(llm), current_stage |-> "sanction",
                   next_agent |-> "sanction", application_status |-> "approved"])

sanction_run(st, pdf, llm) ==
    IF pdf = "ok"
    THEN Returned([sanction_letter_url |-> SanctionLetterUrl,
                   application_status |-> "approved", should_end |-> FALSE,
                   current_stage |-> "sanction", bot_response |-> llm_reply(llm),
                   next_agent |-> "completed"])
    ELSE Returned([bot_response |-> llm_reply(llm), current_stage |-> "sanction",
                   next_agent |-> "sanction", application_status |-> "approved"])

(***************************************************************************)
(* LoanWorkflow.process_message (workflow.py). env holds the outcomes of   *)
(* the collaborator calls of the turn: llm for the reply of the agent that *)
(* is called first, llm2 for the reply of an agent called after it in the  *)
(* same turn, kyc, credit, score and pdf. The result is the session state  *)
(* as mutated by the turn, and whether the turn raised.                    *)
(***************************************************************************)
MasterStages == {"greeting", "discovery", "persuasion", "onboarding"}
Workers == {"sales", "verification", "document", "underwriting", "sanction"}

\* LoanWorkflow._call_agent
call_agent(agent_name, st, heard, env, llm) ==
    IF agent_name = "master" THEN Returned(master_run(st, heard, llm))
    ELSE IF agent_name = "sales" THEN sales_run(st, heard.sales, llm)
    ELSE IF agent_name = "verification" THEN verification_run(st, env.kyc, llm)
    ELSE IF agent_name = "document" THEN document_run(st, llm)
    ELSE IF agent_name = "underwriting" THEN underwriting_run(st, env.credit, env.score, llm)
    ELSE IF agent_name = "sanction" THEN sanction_run(st, env.pdf, llm)
    ELSE Returned(<<>>)

\* the branch of process_message that handles the turn
routed_to(st) ==
    IF st.next_agent = "master"
       \/ (st.current_stage \in MasterStages /\ st.next_agent \notin Workers)
    THEN "master"
    ELSE st.next_agent

\* apply the updates of a run, or stop the turn where the run raised
Apply(st, result) ==
    IF result.raised THEN [raised |-> TRUE, state |-> st]
    ELSE [raised |-> FALSE, state |-> Update(st, result.updates)]

\* process_message after a run of the master agent (first): a worker the master
\* routed to without composing a reply runs in the same turn, and its updates
\* count when it replies
after_master(first, worker) ==
    IF first.state.next_agent # "master" /\ first.state.bot_response = ""
    THEN IF worker.raised THEN [raised |-> TRUE, state |-> first.state]
         ELSE IF "bot_response" \in DOMAIN worker.updates
                 /\ worker.updates.bot_response # ""
         THEN [raised |-> FALSE, state |-> Update(first.state, worker.updates)]
         ELSE first
    ELSE first

\* process_message leaving next_agent as the sanction agent returned it
after_first_sanction_as_returned(branch, first, heard, env) ==
    IF branch = "master"
    THEN after_master(first,
                      call_agent(first.state.next_agent, first.state, heard, env, env.llm2))
    ELSE IF first.raised THEN first
    ELSE IF branch = "sales" \/ branch = "document" THEN first
    ELSE IF branch = "verification"
    THEN IF first.state.kyc_verified
         THEN IF first.state.application_status = "needs_documents"
              THEN [first EXCEPT !.state.next_agent = "document"]
              ELSE [first EXCEPT !.state.next_agent = "underwriting"]
         ELSE first
    ELSE IF branch = "underwriting"
    THEN IF first.state.application_status = "approved"
         THEN Apply(first.state, sanction_run(first.state, env.pdf, env.llm2))
         ELSE IF first.state.application_status = "needs_documents"
         THEN [first EXCEPT !.state.next_agent = "document"]
         ELSE first
    ELSE IF branch = "sanction"
    THEN first
    ELSE IF branch = "completed"
    THEN [first EXCEPT !.state.should_end = TRUE, !.state.bot_response = Scripted]
    ELSE first

\* process_message after the run (first) of the agent of the branch
after_first(branch, first, heard, env) ==
    IF branch = "master"
    THEN after_master(first,
                      call_agent(first.state.next_agent, first.state, heard, env, env.llm2))
    ELSE IF first.raised THEN first
    ELSE IF branch = "sales" \/ branch = "document" THEN first
    ELSE IF branch = "verification"
    THEN IF first.state.kyc_verified
         THEN IF first.state.application_status = "needs_documents"
              THEN [first EXCEPT !.state.next_agent = "document"]
              ELSE [first EXCEPT !.state.next_agent = "underwriting"]
         ELSE first
    ELSE IF branch = "underwriting"
    THEN IF first.state.application_status = "approved"
         THEN Apply(first.state, sanction_run(first.state, env.pdf, env.llm2))
         ELSE IF first.state.application_status = "needs_documents"
         THEN [first EXCEPT !.state.next_agent = "document"]
         ELSE first
    ELSE IF branch = "sanction"
    THEN [first EXCEPT !.state.next_agent = "completed"]
    ELSE IF branch = "completed"
    THEN [first EXCEPT !.state.should_end = TRUE, !.state.bot_response = Scripted]
    ELSE first

\* process_message from the routing decision on; s0 is the state holding the message
route(s0, branch, heard, env) ==
    after_first(branch, Apply(s0, call_agent(branch, s0, heard, env, env.llm)), heard, env)

process_message(st, heard, env) ==
    route([st EXCEPT !.user_message = heard.text],
          routed_to([st EXCEPT !.user_message = heard.text]), heard, env)

(***************************************************************************)
(* websocket_endpoint (main.py): customer resolution, the initial session  *)
(* dictionary and the turn loop.                                           *)
(***************************************************************************)

\* needs_onboarding set for guests only
resolve_needs_onboarding_guests_only(is_guest, in_database, is_mock_user, phone, age) ==
    is_guest

\* needs_onboarding as websocket_endpoint sets it: for a guest; for a user in
\* neither the database nor the mock data, whose row is created; for a customer
\* of the database with `not customer.phone or not customer.age`
resolve_needs_onboarding(is_guest, in_database, is_mock_user, phone, age) ==
    IF is_guest THEN TRUE
    ELSE IF ~in_database THEN ~is_mock_user
    ELSE phone = NoneStr \/ ~Truthy(age)

\* The customers a session can be opened for, as resolved by websocket_endpoint:
\* the mock customers (is_mock_user), a customer stored in the database with a
\* complete profile, one stored without an age, a guest, and a user unknown so
\* far, whose customer row is created with a display name made of the e-mail
\* prefix and who is asked for phone and age.
ResolvedCustomers ==
    { c @@ [is_guest |-> FALSE, is_mock_user |-> TRUE,
            needs_onboarding |->
                resolve_needs_onboarding(FALSE, FALSE, TRUE, c.phone, c.age)]
        : c \in MOCK_CUSTOMERS }
    \cup
    { [email |-> "asha.rao@email.com", name |-> "Asha Rao", phone |-> "+91-9000000001",
       age |-> 30, address |-> "Pune", kyc_verified |-> TRUE, credit_score |-> 800,
       pre_approved_limit |-> 500000, monthly_salary |-> None,
       is_guest |-> FALSE, is_mock_user |-> FALSE,
       needs_onboarding |->
           resolve_needs_onboarding(FALSE, TRUE, FALSE, "+91-9000000001", 30)],
      [email |-> "dev.mehta@email.com", name |-> "Dev Mehta", phone |-> "+91-9000000002",
       age |-> None, address |-> NoneStr, kyc_verified |-> FALSE, credit_score |-> None,
       pre_approved_limit |-> 0, monthly_salary |-> None,
       is_guest |-> FALSE, is_mock_user |-> FALSE,
       needs_onboarding |->
           resolve_needs_onboarding(FALSE, TRUE, FALSE, "+91-9000000002", None)],
      [email |-> "guest_1a2b3c4d@temp.local", name |-> "Friend", phone |-> NoneStr,
       age |-> None, address |-> NoneStr, kyc_verified |-> FALSE, credit_score |-> None,
       pre_approved_limit |-> 0, monthly_salary |-> None,
       is_guest |-> TRUE, is_mock_user |-> FALSE,
       needs_onboarding |->
           resolve_needs_onboarding(TRUE, FALSE, FALSE, NoneStr, None)],
      [email |-> "new.user@email.com", name |-> "New User", phone |-> NoneStr,
       age |-> None, address |-> NoneStr, kyc_verified |-> FALSE, credit_score |-> None,
       pre_approved_limit |-> 0, monthly_salary |-> None,
       is_guest |-> FALSE, is_mock_user |-> FALSE,
       needs_onboarding |->
           resolve_needs_onboarding(FALSE, FALSE, FALSE, NoneStr, None)] }

\* The session dictionary built by websocket_endpoint. Keys that no handler reads
\* or writes (messages, customer_id, aadhaar_number, conversation_context,
\* user_intent, loan_application_id, conversation_id) are left out; keys that
\* handlers add later (loan_purpose, awaiting_pan, required_documents,
\* pending_documents) start at the default their readers pass to state.get.
InitialState(customer) ==
    [user_message |-> "", bot_response |-> "",
     customer_email |-> customer.email, customer_name |-> customer.name,
     customer_phone |-> customer.phone, customer_age |-> customer.age,
     customer_address |-> customer.address,
     loan_amount |-> None, tenure_months |-> None, interest_rate |-> None,
     emi_amount |-> None, emi_presented |-> FALSE,
     kyc_verified |-> customer.kyc_verified, credit_score |-> customer.credit_score,
     credit_rating |-> NoneStr, pre_approved_limit |-> customer.pre_approved_limit,
     monthly_salary |-> customer.monthly_salary, pan_number |-> NoneStr,
     current_stage |-> IF customer.needs_onboarding THEN "onboarding" ELSE "greeting",
     application_status |-> "pending", next_agent |-> "master", should_end |-> FALSE,
     rejection_reason |-> NoneStr, sanction_letter_url |-> NoneStr,
     is_guest |-> customer.is_guest, is_mock_user |-> customer.is_mock_user,
     needs_onboarding |-> customer.needs_onboarding,
     onboarding_step |-> IF customer.is_guest THEN "name"
                         ELSE IF customer.needs_onboarding THEN "phone" ELSE NoneStr,
     loan_purpose |-> NoneStr, awaiting_pan |-> FALSE,
     required_documents |-> <<>>, pending_documents |-> <<>>]

\* The scores the bureau may draw for an e-mail it does not know
\* (random.randint(650, 850)).
BureauScores == {660, 820}

\* The two-turn conversation of the quick-offer scenario.
Script == <<"hi", "I need a car loan of 5 lakhs">>
OffScript == Len(Script) + 1

VARIABLES
    state,                \* the session dictionary of the connection
    conversation_status,  \* models.Conversation.status
    connected,            \* the websocket loop is still receiving
    script_pos,           \* how many turns of Script the session has followed so far
    decision,             \* a call of a pure function: its arguments, and its result
    uploaded,             \* the document types whose file upload_document has stored
    sessions,             \* several connections side by side: the coroutine of each
    active_connections    \* the keys of main.active_connections

vars == <<state, conversation_status, connected, script_pos, decision, uploaded,
          sessions, active_connections>>

\* no call of _make_decision is under examination
NoDecision == [args |-> <<>>, result |-> <<>>]

CallOutcomes == {"ok", "raise"}

\* a turn in which every collaborator answers
Calm == [llm |-> "text", llm2 |-> "text", kyc |-> "ok", credit |-> "ok",
         score |-> 660, pdf |-> "ok"]

\* The outcomes the collaborators may have in a turn handled by agent: the master's
\* reply and the reply of sales when the master hands over in the turn; the CRM
\* call and the reply of verification; the bureau call and the reply of
\* underwriting, then the letter and the reply of sanction; the letter and the
\* reply of sanction.
TurnEnvs(agent) ==
    IF agent = "master"
    THEN {[Calm EXCEPT !.llm = llm, !.llm2 = llm2] :
             llm \in LLMOutcomes, llm2 \in LLMOutcomes}
    ELSE IF agent = "verification"
    THEN {[Calm EXCEPT !.kyc = kyc, !.llm = llm] :
             kyc \in CallOutcomes, llm \in LLMOutcomes}
    ELSE IF agent = "underwriting"
    THEN {[Calm EXCEPT !.credit = credit, !.llm = llm] :
             credit \in {"unavailable", "raise"}, llm \in LLMOutcomes}
         \cup
         {[Calm EXCEPT !.score = score, !.llm = llm, !.pdf = pdf, !.llm2 = llm2] :
             score \in BureauScores, llm \in LLMOutcomes, pdf \in CallOutcomes,
             llm2 \in LLMOutcomes}
    ELSE IF agent = "sanction"
    THEN {[Calm EXCEPT !.pdf = pdf, !.llm = llm] :
             pdf \in CallOutcomes, llm \in LLMOutcomes}
    ELSE IF agent = "completed" THEN {Calm}
    ELSE {[Calm EXCEPT !.llm = llm] : llm \in LLMOutcomes}

Init ==
    /\ \E customer \in ResolvedCustomers : state = InitialState(customer)
    /\ conversation_status = "active"
    /\ connected = TRUE
    /\ script_pos = 0
    /\ decision = NoDecision
    /\ uploaded = {}
    /\ sessions = <<>>
    /\ active_connections = {}

\* One iteration of the receive loop of websocket_endpoint for a non-blank message:
\* process_message, then the should_end check; an exception leaves the loop through
\* `except Exception`, which closes the socket without touching the status.
Receive(message, result) ==
    /\ connected
    /\ Strip(message) # ""
    /\ state' = result.state
    /\ connected' = (~result.raised /\ ~result.state.should_end)
    /\ conversation_status' =
           IF ~result.raised /\ result.state.should_end THEN "completed"
           ELSE conversation_status
    /\ script_pos' = IF script_pos < Len(Script) /\ message = Script[script_pos + 1]
                     THEN script_pos + 1 ELSE OffScript
    /\ UNCHANGED <<decision, uploaded, sessions, active_connections>>

Turn(heard, env) == Receive(heard.text, process_message(state, heard, env))

\* a turn of the onboarding dialogue (the master agent collects name, phone, age)
OnboardingTurn(heard) ==
    /\ heard.text \in OnboardingMessages
    /\ routed_to(state) = "master" /\ state.needs_onboarding
    /\ \E env \in TurnEnvs("master") : Turn(heard, env)

\* a turn routed to the master agent (which may hand over to sales in the same turn)
MasterTurn(heard) ==
    /\ heard.text \in ConversationMessages
    /\ routed_to(state) = "master" /\ ~state.needs_onboarding
    /\ \E env \in TurnEnvs("master") : Turn(heard, env)

SalesTurn(heard) ==
    /\ heard.text \in ConversationMessages
    /\ routed_to(state) = "sales"
    /\ \E env \in TurnEnvs("sales") : Turn(heard, env)

VerificationTurn(heard) ==
    /\ heard.text \in WorkerMessages
    /\ routed_to(state) = "verification"
    /\ \E env \in TurnEnvs("verification") : Turn(heard, env)

DocumentTurn(heard) ==
    /\ heard.text \in WorkerMessages
    /\ routed_to(state) = "document"
    /\ \E env \in TurnEnvs("document") : Turn(heard, env)

\* underwriting, followed in the same turn by sanction when the decision is approved
UnderwritingTurn(heard) ==
    /\ heard.text \in WorkerMessages
    /\ routed_to(state) = "underwriting"
    /\ \E env \in TurnEnvs("underwriting") : Turn(heard, env)

SanctionTurn(heard) ==
    /\ heard.text \in WorkerMessages
    /\ routed_to(state) = "sanction"
    /\ \E env \in TurnEnvs("sanction") : Turn(heard, env)

CompletedTurn(heard) ==
    /\ heard.text \in WorkerMessages
    /\ routed_to(state) = "completed"
    /\ \E env \in TurnEnvs("completed") : Turn(heard, env)

\* WebSocketDisconnect: the client goes away
Disconnect ==
    /\ connected
    /\ connected' = FALSE
    /\ conversation_status' = "abandoned"
    /\ UNCHANGED <<state, script_pos, decision, uploaded, sessions, active_connections>>

\* the document types upload_document accepts
valid_types == {"aadhaar", "pan", "salary_slip", "bank_statement"}

\* upload_document (POST /api/documents/upload) for a valid file: the file is
\* stored, and the customer row of the database may be updated from its text; the
\* session dictionary of the connection is not touched. The client uploads, while
\* the document agent has the session, a document the agent lists as pending.
Upload(document_type) ==
    /\ connected
    /\ routed_to(state) = "document"
    /\ document_type \in valid_types
    /\ \E i \in DOMAIN state.pending_documents : state.pending_documents[i] = document_type
    /\ document_type \notin uploaded
    /\ uploaded' = uploaded \cup {document_type}
    /\ UNCHANGED <<state, conversation_status, connected, script_pos, decision,
                   sessions, active_connections>>

\* the client sends an utterance, which the branch of the current routing handles,
\* or goes away
Next ==
    \/ \E heard \in Utterances :
          \/ OnboardingTurn(heard)
          \/ MasterTurn(heard)
          \/ SalesTurn(heard)
          \/ VerificationTurn(heard)
          \/ DocumentTurn(heard)
          \/ UnderwritingTurn(heard)
          \/ SanctionTurn(heard)
          \/ CompletedTurn(heard)
    \/ \E document_type \in valid_types : Upload(document_type)
    \/ Disconnect

Spec == Init /\ [][Next]_vars

(***************************************************************************)
(* UnderwritingAgent._make_decision on its own: the arguments are drawn    *)
(* from sets around the thresholds of the four rules (the score floor 700, *)
(* the limit, twice the limit, half the salary), and Decide makes the      *)
(* call. No session is open.                                               *)
(***************************************************************************)
DecisionScores == {650, 699, 700, 750}
DecisionAmounts == {100000, 300000, 500000, 500001, 900000, 1000000, 1000001}
DecisionLimits == {0, 300000, 500000}
\* None: the salary is not known
DecisionSalaries == {None, 0, 50000}
\* in paise
DecisionEmis == {2000000, 2500000, 2500001, 3000000}

DecisionArgs ==
    [credit_score : DecisionScores, loan_amount : DecisionAmounts,
     pre_approved_limit : DecisionLimits, monthly_salary : DecisionSalaries,
     emi_amount : DecisionEmis]

DecisionInit ==
    /\ state = InitialState(CHOOSE c \in ResolvedCustomers : c.is_guest)
    /\ conversation_status = "active"
    /\ connected = FALSE
    /\ script_pos = 0
    /\ \E args \in DecisionArgs : decision = [args |-> args, result |-> <<>>]
    /\ uploaded = {}
    /\ sessions = <<>>
    /\ active_connections = {}

Decide ==
    /\ decision.args # <<>>
    /\ decision.result = <<>>
    /\ decision' = [decision EXCEPT !.result =
                        make_decision(decision.args.credit_score, decision.args.loan_amount,
                                      decision.args.pre_approved_limit,
                                      decision.args.monthly_salary,
                                      decision.args.emi_amount)]
    /\ UNCHANGED <<state, conversation_status, connected, script_pos, uploaded,
                   sessions, active_connections>>

DecisionNext == Decide

DecisionSpec == DecisionInit /\ [][DecisionNext]_vars

(***************************************************************************)
(* DocumentAgent._get_required_documents as a pure function                *)
(* (RequiredSpec): the amounts and limits lie on both sides of the limit   *)
(* and of one and a half times the limit, for even and odd limits.         *)
(***************************************************************************)
RequiredAmounts ==
    {1, 50000, 250000, 300000, 300001, 375000, 375001, 450000, 450001, 450002,
     500000, 500001, 750000, 750001, 1000000, 1200000}

\* the limits of the customers, no limit (a guest), and an odd limit
RequiredLimits == {0, 1, 250000, 300000, 300001, 500000}

RequiredArgs == [loan_amount : RequiredAmounts, pre_approved : RequiredLimits]

RequiredInit ==
    /\ state = InitialState(CHOOSE c \in ResolvedCustomers : c.is_guest)
    /\ conversation_status = "active"
    /\ connected = FALSE
    /\ script_pos = 0
    /\ \E args \in RequiredArgs : decision = [args |-> args, result |-> <<>>]
    /\ uploaded = {}
    /\ sessions = <<>>
    /\ active_connections = {}

Require ==
    /\ decision.args # <<>>
    /\ decision.result = <<>>
    /\ decision' = [decision EXCEPT !.result =
                        get_required_documents(decision.args.loan_amount,
                                               decision.args.pre_approved)]
    /\ UNCHANGED <<state, conversation_status, connected, script_pos, uploaded,
                   sessions, active_connections>>

RequiredNext == Require

RequiredSpec == RequiredInit /\ [][RequiredNext]_vars

(***************************************************************************)
(* The stage rules of the master agent, the extractors and the offer       *)
(* calculators as pure functions (FunctionSpec): a call is drawn with its  *)
(* arguments, and the action of the function called computes its result.   *)
(***************************************************************************)

\* the intents _detect_intent returns
MasterIntents ==
    {"amount_provided", "agreement", "loan_need", "simple_yes", "question",
     "hesitation", "greeting", "general"}

\* the calls of _decide_action_with_llm: an amount is extracted exactly when the
\* intent is amount_provided
DecideCalls ==
    {c \in [call : {"decide_action"},
            stage : {"greeting", "discovery", "persuasion", "offer_presentation"},
            intent : MasterIntents, purpose : {NoneStr, "wedding", "car"},
            amount : {None, 500000}] :
        (c.amount # None) <=> (c.intent = "amount_provided")}

\* the calls of _calculate_interest_rate: amounts on both sides of the limits,
\* scores on both sides of 700, 750 and 800 and no score, the limits of the
\* customers, the limit 0 of a guest and no limit
RateAmounts == {1, 50000, 250000, 250001, 300000, 500000, 500001, 1200000}
RateScores == {None, 650, 699, 700, 749, 750, 799, 800, 850}
RateLimits == {None, 0, 250000, 300000, 500000}
RateCalls ==
    [call : {"calculate_interest_rate"}, amount : RateAmounts,
     credit_score : RateScores, pre_approved_limit : RateLimits]

\* the calls of _suggest_tenure: amounts from 0 on, at and next to the amounts
\* at which the tenure for a salary of 50000 changes (multiples of 189000), and
\* the salaries of the customers, the default 50000 and a salary of 1
TenureAmounts ==
    {0, 1, 100000, 188999, 189000, 283500, 377999, 378000, 500000, 566999, 567000,
     755999, 756000, 944999, 945000, 1200000, 5000000}
TenureSalaries == {1, 25000, 50000, 55000, 65000, 85000}
TenureCalls == [call : {"suggest_tenure"}, amount : TenureAmounts, salary : TenureSalaries]

\* the calls of _calculate_emi: principals from one rupee (an amount such as
\* "rs 1" is extracted and offered) to the amounts of the offers, the rates that
\* _calculate_interest_rate quotes and the rates 0, 0.01 and 1 percent, tenures in
\* and between the suggested ones
EmiPrincipals == {1, 2, 1000, 50000, 500000, 1200000}
EmiRates == {0, 1, 100, 900, 1000, 1150}
EmiTenures == {1, 4, 12, 24, 33, 48, 60}
EmiCalls ==
    [call : {"calculate_emi"}, principal : EmiPrincipals, rate : EmiRates,
     tenure : EmiTenures]

\* The calls of _extract_amount of the master agent and of the sales agent. Each
\* call carries what each pattern of the function finds in the message when
\* searched alone (lakh, k, currency, bare; None when it does not match), whether
\* the message holds digits after a currency marker (rs, rs.), and whether it
\* holds a run of 5 to 7 digits standing alone.
ExtractCalls ==
    { [call |-> "extract_amount", agent |-> "master", message |-> "5 lakhs or 50000",
      lakh |-> 500000, k |-> None, currency |-> 50000, bare |-> 50000, marker |-> FALSE, digits |-> TRUE],
     [call |-> "extract_amount", agent |-> "sales", message |-> "5 lakhs or 50000",
      lakh |-> 500000, k |-> None, currency |-> 50000, bare |-> 50000, marker |-> FALSE, digits |-> TRUE],
     [call |-> "extract_amount", agent |-> "master", message |-> "50000 or 5 lakhs",
      lakh |-> 500000, k |-> None, currency |-> 5, bare |-> 50000, marker |-> FALSE, digits |-> TRUE],
     [call |-> "extract_amount", agent |-> "sales", message |-> "50000 or 5 lakhs",
      lakh |-> 500000, k |-> None, currency |-> 5, bare |-> 50000, marker |-> FALSE, digits |-> TRUE],
     [call |-> "extract_amount", agent |-> "master", message |-> "2 lakh 75k",
      lakh |-> 200000, k |-> 75000, currency |-> None, bare |-> None, marker |-> FALSE, digits |-> FALSE],
     [call |-> "extract_amount", agent |-> "sales", message |-> "2 lakh 75k",
      lakh |-> 200000, k |-> 75000, currency |-> None, bare |-> None, marker |-> FALSE, digits |-> FALSE],
     [call |-> "extract_amount", agent |-> "master", message |-> "75k or 2 lakh",
      lakh |-> 200000, k |-> 75000, currency |-> 2, bare |-> None, marker |-> FALSE, digits |-> FALSE],
     [call |-> "extract_amount", agent |-> "sales", message |-> "75k or 2 lakh",
      lakh |-> 200000, k |-> 75000, currency |-> 2, bare |-> None, marker |-> FALSE, digits |-> FALSE],
     [call |-> "extract_amount", agent |-> "master", message |-> "50k or 80000",
      lakh |-> None, k |-> 50000, currency |-> 80000, bare |-> 80000, marker |-> FALSE, digits |-> TRUE],
     [call |-> "extract_amount", agent |-> "sales", message |-> "50k or 80000",
      lakh |-> None, k |-> 50000, currency |-> 80000, bare |-> 80000, marker |-> FALSE, digits |-> TRUE],
     [call |-> "extract_amount", agent |-> "master", message |-> "rs 2,00,000 or 50000",
      lakh |-> None, k |-> None, currency |-> 200000, bare |-> 50000, marker |-> TRUE, digits |-> TRUE],
     [call |-> "extract_amount", agent |-> "sales", message |-> "rs 2,00,000 or 50000",
      lakh |-> None, k |-> None, currency |-> 200000, bare |-> 50000, marker |-> TRUE, digits |-> TRUE],
     [call |-> "extract_amount", agent |-> "master", message |-> "rs. 40,000",
      lakh |-> None, k |-> None, currency |-> 40000, bare |-> None, marker |-> TRUE, digits |-> FALSE],
     [call |-> "extract_amount", agent |-> "sales", message |-> "rs. 40,000",
      lakh |-> None, k |-> None, currency |-> 40000, bare |-> None, marker |-> TRUE, digits |-> FALSE],
     [call |-> "extract_amount", agent |-> "master", message |-> "80000",
      lakh |-> None, k |-> None, currency |-> None, bare |-> 80000, marker |-> FALSE, digits |-> TRUE],
     [call |-> "extract_amount", agent |-> "sales", message |-> "80000",
      lakh |-> None, k |-> None, currency |-> None, bare |-> 80000, marker |-> FALSE, digits |-> TRUE],
     [call |-> "extract_amount", agent |-> "master", message |-> "12345678",
      lakh |-> None, k |-> None, currency |-> None, bare |-> None, marker |-> FALSE, digits |-> FALSE],
     [call |-> "extract_amount", agent |-> "sales", message |-> "12345678",
      lakh |-> None, k |-> None, currency |-> None, bare |-> 12345678, marker |-> FALSE, digits |-> FALSE],
     [call |-> "extract_amount", agent |-> "master", message |-> "it is 25",
      lakh |-> None, k |-> None, currency |-> 25, bare |-> None, marker |-> FALSE, digits |-> FALSE],
     [call |-> "extract_amount", agent |-> "sales", message |-> "it is 25",
      lakh |-> None, k |-> None, currency |-> 25, bare |-> None, marker |-> FALSE, digits |-> FALSE],
     [call |-> "extract_amount", agent |-> "master", message |-> "it is 25 and 50000",
      lakh |-> None, k |-> None, currency |-> 25, bare |-> 50000, marker |-> FALSE, digits |-> TRUE],
     [call |-> "extract_amount", agent |-> "sales", message |-> "it is 25 and 50000",
      lakh |-> None, k |-> None, currency |-> 25, bare |-> 50000, marker |-> FALSE, digits |-> TRUE],
     [call |-> "extract_amount", agent |-> "master", message |-> "make it 3 years",
      lakh |-> None, k |-> None, currency |-> None, bare |-> None, marker |-> FALSE, digits |-> FALSE],
     [call |-> "extract_amount", agent |-> "sales", message |-> "make it 3 years",
      lakh |-> None, k |-> None, currency |-> None, bare |-> None, marker |-> FALSE, digits |-> FALSE],
     [call |-> "extract_amount", agent |-> "master", message |-> "3.5",
      lakh |-> None, k |-> None, currency |-> 5, bare |-> None, marker |-> FALSE, digits |-> FALSE],
     [call |-> "extract_amount", agent |-> "sales", message |-> "3.5",
      lakh |-> None, k |-> None, currency |-> 5, bare |-> None, marker |-> FALSE, digits |-> FALSE],
     [call |-> "extract_amount", agent |-> "master", message |-> "i need 1234",
      lakh |-> None, k |-> None, currency |-> None, bare |-> None, marker |-> FALSE, digits |-> FALSE],
     [call |-> "extract_amount", agent |-> "sales", message |-> "i need 1234",
      lakh |-> None, k |-> None, currency |-> None, bare |-> None, marker |-> FALSE, digits |-> FALSE],
     [call |-> "extract_amount", agent |-> "master", message |-> "hi",
      lakh |-> None, k |-> None, currency |-> None, bare |-> None, marker |-> FALSE, digits |-> FALSE],
     [call |-> "extract_amount", agent |-> "sales", message |-> "hi",
      lakh |-> None, k |-> None, currency |-> None, bare |-> None, marker |-> FALSE, digits |-> FALSE],
     [call |-> "extract_amount", agent |-> "master", message |-> "0 lakh 50000",
      lakh |-> 0, k |-> None, currency |-> None, bare |-> 50000, marker |-> FALSE, digits |-> TRUE],
     [call |-> "extract_amount", agent |-> "sales", message |-> "0 lakh 50000",
      lakh |-> 0, k |-> None, currency |-> None, bare |-> 50000, marker |-> FALSE, digits |-> TRUE],
     [call |-> "extract_amount", agent |-> "master", message |-> "50 k",
      lakh |-> None, k |-> 50000, currency |-> None, bare |-> None, marker |-> FALSE, digits |-> FALSE],
     [call |-> "extract_amount", agent |-> "sales", message |-> "50 k",
      lakh |-> None, k |-> None, currency |-> None, bare |-> None, marker |-> FALSE, digits |-> FALSE],
     [call |-> "extract_amount", agent |-> "master", message |-> "rs 1",
      lakh |-> None, k |-> None, currency |-> 1, bare |-> None, marker |-> TRUE, digits |-> FALSE],
     [call |-> "extract_amount", agent |-> "sales", message |-> "rs 1",
      lakh |-> None, k |-> None, currency |-> 1, bare |-> None, marker |-> TRUE, digits |-> FALSE],
     [call |-> "extract_amount", agent |-> "master", message |-> "2.5 lakhs",
      lakh |-> 250000, k |-> None, currency |-> 5, bare |-> None, marker |-> FALSE, digits |-> FALSE],
     [call |-> "extract_amount", agent |-> "sales", message |-> "2.5 lakhs",
      lakh |-> 250000, k |-> None, currency |-> 5, bare |-> None, marker |-> FALSE, digits |-> FALSE],
     [call |-> "extract_amount", agent |-> "master", message |-> "my age is 30",
      lakh |-> None, k |-> None, currency |-> 30, bare |-> None, marker |-> FALSE, digits |-> FALSE],
     [call |-> "extract_amount", agent |-> "sales", message |-> "my age is 30",
      lakh |-> None, k |-> None, currency |-> 30, bare |-> None, marker |-> FALSE, digits |-> FALSE],
     [call |-> "extract_amount", agent |-> "master", message |-> "1.5 lac or 99999",
      lakh |-> 150000, k |-> None, currency |-> 5, bare |-> 99999, marker |-> FALSE, digits |-> TRUE],
     [call |-> "extract_amount", agent |-> "sales", message |-> "1.5 lac or 99999",
      lakh |-> None, k |-> None, currency |-> 5, bare |-> 99999, marker |-> FALSE, digits |-> TRUE] }

\* The calls of _detect_intent of the master agent. Each call carries whether
\* the message holds an amount, whether it holds a need-word and a loan-word, and
\* the intent of the first of the eleven rules (amount_provided, agreement,
\* loan_need, loan_inquiry, simple_yes, question, hesitation, decline, greeting,
\* closing, general) that the message matches.
IntentCalls ==
    { [call |-> "detect_intent", message |-> "too expensive, 5 lakhs", amount |-> TRUE,
      need_and_loan |-> FALSE, first_rule |-> "amount_provided"],
     [call |-> "detect_intent", message |-> "no no i need a loan", amount |-> FALSE,
      need_and_loan |-> TRUE, first_rule |-> "loan_need"],
     [call |-> "detect_intent", message |-> "not sure i want a loan", amount |-> FALSE,
      need_and_loan |-> TRUE, first_rule |-> "loan_need"],
     [call |-> "detect_intent", message |-> "i need money", amount |-> FALSE,
      need_and_loan |-> TRUE, first_rule |-> "loan_need"],
     [call |-> "detect_intent", message |-> "i want to go ahead", amount |-> FALSE,
      need_and_loan |-> FALSE, first_rule |-> "agreement"],
     [call |-> "detect_intent", message |-> "tell me about the loan", amount |-> FALSE,
      need_and_loan |-> FALSE, first_rule |-> "loan_inquiry"],
     [call |-> "detect_intent", message |-> "yes", amount |-> FALSE,
      need_and_loan |-> FALSE, first_rule |-> "simple_yes"],
     [call |-> "detect_intent", message |-> "ok", amount |-> FALSE,
      need_and_loan |-> FALSE, first_rule |-> "simple_yes"],
     [call |-> "detect_intent", message |-> "what is the emi?", amount |-> FALSE,
      need_and_loan |-> FALSE, first_rule |-> "question"],
     [call |-> "detect_intent", message |-> "not sure", amount |-> FALSE,
      need_and_loan |-> FALSE, first_rule |-> "hesitation"],
     [call |-> "detect_intent", message |-> "too expensive", amount |-> FALSE,
      need_and_loan |-> FALSE, first_rule |-> "hesitation"],
     [call |-> "detect_intent", message |-> "no", amount |-> FALSE,
      need_and_loan |-> FALSE, first_rule |-> "decline"],
     [call |-> "detect_intent", message |-> "no thanks", amount |-> FALSE,
      need_and_loan |-> FALSE, first_rule |-> "decline"],
     [call |-> "detect_intent", message |-> "not interested", amount |-> FALSE,
      need_and_loan |-> FALSE, first_rule |-> "decline"],
     [call |-> "detect_intent", message |-> "hi", amount |-> FALSE,
      need_and_loan |-> FALSE, first_rule |-> "greeting"],
     [call |-> "detect_intent", message |-> "hello there", amount |-> FALSE,
      need_and_loan |-> FALSE, first_rule |-> "greeting"],
     [call |-> "detect_intent", message |-> "thanks", amount |-> FALSE,
      need_and_loan |-> FALSE, first_rule |-> "closing"],
     [call |-> "detect_intent", message |-> "bye", amount |-> FALSE,
      need_and_loan |-> FALSE, first_rule |-> "closing"],
     [call |-> "detect_intent", message |-> "make it 3 years", amount |-> FALSE,
      need_and_loan |-> FALSE, first_rule |-> "general"],
     [call |-> "detect_intent", message |-> "for my wedding", amount |-> FALSE,
      need_and_loan |-> FALSE, first_rule |-> "general"],
     [call |-> "detect_intent", message |-> "i need funds, not sure how much", amount |-> FALSE,
      need_and_loan |-> TRUE, first_rule |-> "loan_need"] }

FunctionCalls ==
    DecideCalls \cup RateCalls \cup TenureCalls \cup EmiCalls \cup ExtractCalls
      \cup IntentCalls

FunctionInit ==
    /\ state = InitialState(CHOOSE c \in ResolvedCustomers : c.is_guest)
    /\ conversation_status = "active"
    /\ connected = FALSE
    /\ script_pos = 0
    /\ \E args \in FunctionCalls : decision = [args |-> args, result |-> <<>>]
    /\ uploaded = {}
    /\ sessions = <<>>
    /\ active_connections = {}

\* the function named call is called and has not returned
Called(call) == decision.result = <<>> /\ decision.args.call = call

\* the call with its result
Returns(result) == [decision EXCEPT !.result = <<result>>]

\* the variables of the session model
session_vars == <<state, conversation_status, connected, script_pos, uploaded,
                  sessions, active_connections>>

DecideAction ==
    /\ Called("decide_action")
    /\ decision' = Returns(decide_action([amount |-> decision.args.amount,
                                          purpose |-> decision.args.purpose,
                                          intent |-> decision.args.intent],
                                         decision.args.stage, "text"))
    /\ UNCHANGED session_vars

CalculateInterestRate ==
    /\ Called("calculate_interest_rate")
    /\ decision' = Returns(calculate_interest_rate(
                               decision.args.amount,
                               [credit_score |-> decision.args.credit_score,
                                pre_approved_limit |-> decision.args.pre_approved_limit]))
    /\ UNCHANGED session_vars

SuggestTenure ==
    /\ Called("suggest_tenure")
    /\ decision' = Returns(suggest_tenure(decision.args.amount, decision.args.salary))
    /\ UNCHANGED session_vars

CalculateEmi ==
    /\ Called("calculate_emi")
    /\ decision' = Returns(calculate_emi(decision.args.principal, decision.args.rate,
                                         decision.args.tenure))
    /\ UNCHANGED session_vars

ExtractAmount ==
    /\ Called("extract_amount")
    /\ decision' = Returns(IF decision.args.agent = "master"
                           THEN master_extract_amount(decision.args.message)
                           ELSE sales_extract_amount(decision.args.message))
    /\ UNCHANGED session_vars

\* _extract_all_info calls _detect_intent(message.lower().strip(), message)
DetectIntent ==
    /\ Called("detect_intent")
    /\ decision' = Returns(master_detect_intent(Strip(Lower(decision.args.message)),
                                                decision.args.message))
    /\ UNCHANGED session_vars

FunctionNext ==
    \/ DecideAction
    \/ CalculateInterestRate
    \/ SuggestTenure
    \/ CalculateEmi
    \/ ExtractAmount
    \/ DetectIntent

FunctionSpec == FunctionInit /\ [][FunctionNext]_vars

(***************************************************************************)
(* Several connections side by side. Each connection is served by its own  *)
(* coroutine of websocket_endpoint, which holds the session dictionary in  *)
(* a local variable; the coroutines share the event loop, the singleton    *)
(* loan_workflow with its agents (no attribute of which is written after   *)
(* construction) and the dictionary active_connections. A coroutine gives  *)
(* up the event loop where it awaits: at receive_text, and inside          *)
(* process_message at the calls of the collaborators. A turn is therefore  *)
(* three steps: ReceiveText (receive_text returns, the message is stored), *)
(* AgentReturns (the agent of the branch has its answers and its updates   *)
(* are applied), ReturnsToLoop (the rest of process_message, the reply,    *)
(* the should_end check). The client may send while a turn is in flight:   *)
(* the message waits in the socket.                                        *)
(***************************************************************************)

\* session_id = str(uuid.uuid4()): one per connection
SessionIds == {"s1", "s2"}

\* the customers of the connections: a mock customer and a guest
SessionCustomers ==
    {c \in ResolvedCustomers :
        c.email \in {"rahul.sharma@email.com", "guest_1a2b3c4d@temp.local"}}

\* what the client of a connection sends, in this order
ClientScript(customer) ==
    IF customer.needs_onboarding THEN <<"Ravi Kumar", "987-654-3210", "25">>
    ELSE <<"I need a car loan of 5 lakhs", "yes", "yes">>

\* the utterance with text message
heard_of(message) == CHOOSE heard \in Utterances : heard.text = message

\* the answers of the collaborators in a turn: all answer; the first reply is
\* empty, so that a second agent runs in a turn of the master; the CRM call raises
SessionEnvs ==
    {Calm, [Calm EXCEPT !.llm = "empty"], [Calm EXCEPT !.kyc = "raise"]}

\* a connection not opened yet
Unopened ==
    [pc |-> "connect", customer |-> <<>>, state |-> <<>>, status |-> NoneStr,
     socket |-> <<>>, sent |-> 0, accepted |-> 0, turn |-> <<>>, done |-> <<>>]

\* the variables of the model of one connection
connection_vars == <<state, conversation_status, connected, script_pos, decision, uploaded>>

SessionsInit ==
    /\ state = InitialState(CHOOSE c \in ResolvedCustomers : c.is_guest)
    /\ conversation_status = "active"
    /\ connected = FALSE
    /\ script_pos = 0
    /\ decision = NoDecision
    /\ uploaded = {}
    /\ sessions = [s \in SessionIds |-> Unopened]
    /\ active_connections = {}

\* websocket_endpoint up to the receive loop
Connect(s, customer) ==
    /\ sessions[s].pc = "connect"
    /\ sessions' = [sessions EXCEPT ![s] =
                       [@ EXCEPT !.pc = "receive", !.customer = customer,
                                 !.state = InitialState(customer), !.status = "active"]]
    /\ active_connections' = active_connections \cup {s}
    /\ UNCHANGED connection_vars

\* the client sends the next message of its script
ClientSends(s) ==
    /\ sessions[s].pc \in {"receive", "first", "second"}
    /\ sessions[s].sent < Len(ClientScript(sessions[s].customer))
    /\ sessions' = [sessions EXCEPT ![s] =
                       [@ EXCEPT !.socket = Append(@, ClientScript(sessions[s].customer)[sessions[s].sent + 1]),
                                 !.sent = @ + 1]]
    /\ UNCHANGED <<connection_vars, active_connections>>

\* a coroutine that takes the next message while a turn is still being processed
receiving_while_processing(session) == session.pc \in {"receive", "first", "second"}

\* the coroutine is at `data = await websocket.receive_text()`
receiving(session) == session.pc = "receive"

\* the session dictionary shared by the connections: a turn works on that of
\* another open connection when there is one
turn_state_shared(ss, s) ==
    IF \E t \in SessionIds \ {s} : ss[t].pc # "connect"
    THEN ss[CHOOSE t \in SessionIds \ {s} : ss[t].pc # "connect"].state
    ELSE ss[s].state

\* the session dictionary a turn of connection s works on: the local variable
\* state of its coroutine
turn_state(ss, s) == ss[s].state

\* receive_text returns a message and process_message runs up to the first call
\* of a collaborator: state["user_message"] = user_message, and the branch is chosen
ReceiveText(s) ==
    /\ receiving(sessions[s])
    /\ sessions[s].socket # <<>>
    /\ sessions' = [sessions EXCEPT ![s] =
                       [@ EXCEPT !.socket = Tail(@), !.accepted = @ + 1,
                                 !.pc = "first",
                                 !.state = [turn_state(sessions, s) EXCEPT
                                               !.user_message = Head(sessions[s].socket)],
                                 !.turn = [text |-> Head(sessions[s].socket),
                                           branch |-> routed_to(turn_state(sessions, s)),
                                           env |-> Calm]]]
    /\ UNCHANGED <<connection_vars, active_connections>>

\* the connection after the agent of the branch returned (first): its updates are
\* applied; an exception ends the loop through `except Exception`
after_agent(session, first, env) ==
    IF first.raised
    THEN [session EXCEPT !.state = first.state, !.pc = "ended", !.turn = <<>>,
                         !.done = Append(@, [text |-> session.turn.text, env |-> env])]
    ELSE [session EXCEPT !.state = first.state, !.pc = "second", !.turn.env = env]

\* the collaborators answer and the agent of the branch returns
AgentReturns(s, env) ==
    /\ sessions[s].pc = "first"
    /\ sessions' = [sessions EXCEPT ![s] =
                       after_agent(sessions[s],
                                   Apply(turn_state(sessions, s),
                                         call_agent(sessions[s].turn.branch,
                                                    turn_state(sessions, s),
                                                    heard_of(sessions[s].turn.text),
                                                    env, env.llm)),
                                   env)]
    /\ UNCHANGED <<connection_vars, active_connections>>

\* the connection after process_message returned turn, or raised: the reply is
\* sent and should_end is looked at
after_turn(session, turn) ==
    [session EXCEPT
        !.state = turn.state, !.turn = <<>>,
        !.done = Append(@, [text |-> session.turn.text, env |-> session.turn.env]),
        !.pc = IF turn.raised \/ turn.state.should_end THEN "ended" ELSE "receive",
        !.status = IF ~turn.raised /\ turn.state.should_end THEN "completed" ELSE @]

\* the rest of process_message, and of the iteration of the loop
ReturnsToLoop(s) ==
    /\ sessions[s].pc = "second"
    /\ sessions' = [sessions EXCEPT ![s] =
                       after_turn(sessions[s],
                                  after_first(sessions[s].turn.branch,
                                              [raised |-> FALSE,
                                               state |-> turn_state(sessions, s)],
                                              heard_of(sessions[s].turn.text),
                                              sessions[s].turn.env))]
    /\ UNCHANGED <<connection_vars, active_connections>>

\* WebSocketDisconnect at receive_text: the client has gone
ClientDisconnects(s) ==
    /\ sessions[s].pc = "receive"
    /\ sessions[s].socket = <<>>
    /\ sessions' = [sessions EXCEPT ![s] = [@ EXCEPT !.pc = "ended", !.status = "abandoned"]]
    /\ active_connections' = active_connections \ {s}
    /\ UNCHANGED connection_vars

SessionsNext ==
    \E s \in SessionIds :
        \/ \E customer \in SessionCustomers : Connect(s, customer)
        \/ ClientSends(s)
        \/ ReceiveText(s)
        \/ \E env \in SessionEnvs : AgentReturns(s, env)
        \/ ReturnsToLoop(s)
        \/ ClientDisconnects(s)

SessionsSpec == SessionsInit /\ [][SessionsNext]_vars

(***************************************************************************)
(* Properties of the session model (Spec).                                 *)
(***************************************************************************)

\* a step of the model in which the session processes an utterance
TurnStep == connected /\ conversation_status' # "abandoned" /\ uploaded' = uploaded

\* the amount the master agent reads from the utterance held in st
stated_amount(st) == master_extract_all_info(Strip(st.user_message)).amount

\* the utterances a client sends to a session in state st
Offered(st) ==
    {heard \in Utterances :
        heard.text \in (IF routed_to(st) = "master"
                        THEN (IF st.needs_onboarding THEN OnboardingMessages
                              ELSE ConversationMessages)
                        ELSE IF routed_to(st) = "sales" THEN ConversationMessages
                        ELSE WorkerMessages)}

\* C1 as stated: in every turn of a session that has not ended, whatever its stage,
\* an utterance with an amount ends the turn in offer_presentation with handler
\* sales and loan_amount equal to the amount.
C1_AnyStageFastPath ==
    [][(TurnStep /\ ~state.should_end /\ Truthy(stated_amount(state')))
          => /\ state'.current_stage = "offer_presentation"
             /\ state'.next_agent = "sales"
             /\ state'.loan_amount = stated_amount(state')]_vars

\* C1, amended: in a turn handled by the master agent after onboarding, an
\* utterance from which the master reads an amount ends the turn with handler sales
\* and loan_amount equal to that amount; the stage is offer_presentation, or sales
\* when the sales agent replied in the same turn.
C1_MasterFastPath ==
    [][(TurnStep /\ routed_to(state) = "master" /\ ~state.needs_onboarding
          /\ Truthy(stated_amount(state')))
          => /\ state'.next_agent = "sales"
             /\ state'.loan_amount = stated_amount(state')
             /\ \/ state'.current_stage = "offer_presentation"
                \/ state'.current_stage = "sales" /\ state'.bot_response # ""]_vars

\* a master turn took the fast path on "12 lakhs"
C1_Witness ==
    /\ state.user_message = "12 lakhs"
    /\ state.current_stage = "offer_presentation"
    /\ state.next_agent = "sales"
    /\ state.loan_amount = 1200000
    /\ ~state.emi_presented

\* the session of the quick-offer scenario: limit 500000, score 800, begun in greeting
ScenarioSession ==
    /\ state.pre_approved_limit = 500000
    /\ state.credit_score = 800
    /\ ~state.needs_onboarding

\* C2 as stated: after the two turns of the scenario the session has loan_amount
\* 500000, stage offer_presentation, interest_rate 9.0 and status pre_approved.
C2_OfferAfterTwoTurns ==
    (ScenarioSession /\ script_pos = 2)
        => /\ state.loan_amount = 500000
           /\ state.current_stage = "offer_presentation"
           /\ state.interest_rate = 900
           /\ state.application_status = "pre_approved"

\* C2, amended: after turn 1 the stage is greeting or discovery; after turn 2
\* loan_amount is 500000 and the handler is sales, and either the stage is
\* offer_presentation with no rate quoted yet and the status still pending, or the
\* sales agent replied in the same turn and the stage is sales with interest_rate
\* 9.0 and status pre_approved.
C2_Scenario ==
    /\ (ScenarioSession /\ script_pos = 1)
          => state.current_stage \in {"greeting", "discovery"}
    /\ (ScenarioSession /\ script_pos = 2)
          => /\ state.loan_amount = 500000
             /\ state.next_agent = "sales"
             /\ \/ /\ state.current_stage = "offer_presentation"
                   /\ state.interest_rate = None
                   /\ state.application_status = "pending"
                \/ /\ state.current_stage = "sales"
                   /\ state.interest_rate = 900
                   /\ state.application_status = "pre_approved"

\* the scenario was played to its end and the sales agent quoted in turn 2
C2_Witness ==
    /\ ScenarioSession
    /\ script_pos = 2
    /\ state.current_stage = "sales"
    /\ state.interest_rate = 900

\* C6: should_end becomes true only in a turn handled in the completed state, and
\* once it is true nothing of the session changes any more.
C6_EndOnlyWhenCompleted ==
    [][/\ (state'.should_end /\ ~state.should_end) => routed_to(state) = "completed"
       /\ state.should_end => UNCHANGED vars]_vars

\* the session ended after the letter was written
C6_Witness ==
    /\ state.should_end
    /\ ~connected
    /\ conversation_status = "completed"
    /\ state.sanction_letter_url = SanctionLetterUrl

\* two results of a turn agree on everything but the reply text
SameButReply(a, b) ==
    /\ a.raised = b.raised
    /\ [a.state EXCEPT !.bot_response = ""] = [b.state EXCEPT !.bot_response = ""]

\* the ways the reply compositions of a turn can fail: the first call, the call of
\* the agent that runs after it, or both
Outages == {<<"raise", "text">>, <<"text", "raise">>, <<"raise", "raise">>}

C8_LookupFailureHandled ==
    (connected /\ routed_to(state) \in {"verification", "underwriting"})
        => \A heard \in Offered(state), env \in TurnEnvs(routed_to(state)) :
              (env.kyc = "raise" \/ env.credit = "raise")
                  => LET result == process_message(state, heard, env)
                     IN  /\ ~result.raised
                         /\ result.state.current_stage = routed_to(state)
                         /\ result.state.next_agent = routed_to(state)
                         /\ result.state.bot_response = Fallback

\* C9 as stated: the session is handed to completed only once the sanction letter
\* is available.
C9_CompletedHasLetter ==
    state.next_agent = "completed" => state.sanction_letter_url # NoneStr

\* C10 as stated: once an offer has been presented, a turn whose utterance holds no
\* amount leaves loan_amount, tenure_months and interest_rate as they were.
C10_OfferFrozen ==
    [][(state.emi_presented /\ ~Truthy(stated_amount(state'))
          /\ ~Truthy(sales_extract_amount(state'.user_message)))
          => /\ state'.loan_amount = state.loan_amount
             /\ state'.tenure_months = state.tenure_months
             /\ state'.interest_rate = state.interest_rate]_vars

\* C10, amended: once an offer has been presented, loan_amount keeps its value in
\* every later turn, whatever the utterance; tenure_months changes only in a
\* sales turn whose utterance states a tenure, and then to that tenure;
\* interest_rate changes only in a sales turn, and then to the rate computed from
\* the unchanged amount and the credit score and limit of the session.
C10_AmountFrozen ==
    [][state.emi_presented
          => /\ state'.loan_amount = state.loan_amount
             /\ state'.tenure_months # state.tenure_months
                   => /\ routed_to(state) = "sales"
                      /\ Truthy(sales_extract_tenure(state'.user_message))
                      /\ state'.tenure_months = sales_extract_tenure(state'.user_message)
             /\ state'.interest_rate # state.interest_rate
                   => /\ routed_to(state) = "sales"
                      /\ state'.interest_rate
                            = calculate_interest_rate(state.loan_amount, state)]_vars

\* after an offer of 5 lakhs the client asked for three years and the offer was
\* presented again for the same amount over 36 months
C10_Witness ==
    /\ state.emi_presented
    /\ state.user_message = "make it 3 years"
    /\ state.tenure_months = 36
    /\ state.loan_amount = 500000

(***************************************************************************)
(* Properties of _make_decision (DecisionSpec).                            *)
(***************************************************************************)

\* the call has been made
Decided == decision.result # <<>>

\* C3: with a credit score below 700 the decision is rejected whatever the amount,
\* limit, salary and EMI, and the alternative amount is half the limit when there
\* is a limit and 100000 otherwise.
C3_ScoreFloor ==
    (Decided /\ decision.args.credit_score < 700)
        => /\ decision.result.status = "rejected"
           /\ decision.result.alternative_amount =
                  IF decision.args.pre_approved_limit > 0
                  THEN decision.args.pre_approved_limit * 50
                  ELSE 100000 * 100

\* a request within the limit was rejected on the score
C3_Witness ==
    /\ Decided
    /\ decision.args.credit_score < 700
    /\ decision.args.loan_amount <= decision.args.pre_approved_limit
    /\ decision.result.status = "rejected"

\* the salary is on record and positive
SalaryKnown == Truthy(decision.args.monthly_salary) /\ decision.args.monthly_salary > 0

\* the EMI is at most half the salary
Affordable == decision.args.emi_amount * 2 <= decision.args.monthly_salary * 100

\* C4: with a score of at least 700 and limit < amount <= 2 * limit, the decision is
\* approved exactly when the salary is known and the EMI is at most half of it,
\* rejected with the limit as alternative when the salary is known and the EMI is
\* above half of it, and needs_documents when the salary is not known.
C4_IncomeGate ==
    (/\ Decided
     /\ decision.args.credit_score >= 700
     /\ decision.args.pre_approved_limit < decision.args.loan_amount
     /\ decision.args.loan_amount <= 2 * decision.args.pre_approved_limit)
        => /\ decision.result.status = "approved" <=> (SalaryKnown /\ Affordable)
           /\ (SalaryKnown /\ ~Affordable)
                 => /\ decision.result.status = "rejected"
                    /\ decision.result.alternative_amount
                          = decision.args.pre_approved_limit * 100
           /\ ~SalaryKnown => decision.result.status = "needs_documents"

\* a request in the band was approved with the EMI at exactly half the salary
C4_Witness ==
    /\ Decided
    /\ decision.args.credit_score >= 700
    /\ decision.args.pre_approved_limit < decision.args.loan_amount
    /\ decision.args.loan_amount <= 2 * decision.args.pre_approved_limit
    /\ decision.args.emi_amount * 2 = decision.args.monthly_salary * 100
    /\ decision.result.status = "approved"

\* C5: with a score of at least 700, an amount within the limit is approved and an
\* amount above twice the limit is rejected with the limit as alternative, whatever
\* the salary and the EMI; the rules apply in order (the score floor before the
\* amount rules, the instant approval before the income gate) and the decision has
\* exactly one of the three statuses.
C5_AmountRules ==
    Decided
        => /\ (/\ decision.args.credit_score >= 700
               /\ decision.args.loan_amount <= decision.args.pre_approved_limit)
                 => decision.result.status = "approved"
           /\ (/\ decision.args.credit_score >= 700
               /\ decision.args.loan_amount > 2 * decision.args.pre_approved_limit)
                 => /\ decision.result.status = "rejected"
                    /\ decision.result.reason = "amount_too_high"
                    /\ decision.result.alternative_amount
                          = decision.args.pre_approved_limit * 100
           /\ decision.args.credit_score < 700 => decision.result.reason = "credit_score"
           /\ decision.result.status \in {"approved", "rejected", "needs_documents"}

\* an affordable request above twice the limit was rejected
C5_Witness ==
    /\ Decided
    /\ decision.args.credit_score >= 700
    /\ decision.args.loan_amount > 2 * decision.args.pre_approved_limit
    /\ SalaryKnown /\ Affordable
    /\ decision.result.status = "rejected"

(***************************************************************************)
(* Properties of the application status and of the routing between the     *)
(* handlers (Spec).                                                        *)
(***************************************************************************)

\* the values LoanApplicationState declares for application_status
DeclaredStatuses == {"pending", "approved", "rejected", "needs_documents", "under_review"}

\* C11 as stated: in every reachable session state application_status is one of
\* pending, approved, rejected, needs_documents, under_review.
C11_StatusDeclared == state.application_status \in DeclaredStatuses

\* C12 as stated: application_status leaves rejected or needs_documents only in a
\* turn handled by underwriting; no turn of another handler changes it.
C12_StatusLeftByUnderwriting ==
    [][(/\ state.application_status \in {"rejected", "needs_documents"}
        /\ state'.application_status # state.application_status)
          => routed_to(state) = "underwriting"]_vars

\* the decision underwriting takes for session st when the bureau reports score
decision_of(st, score) ==
    make_decision(score, st.loan_amount, st.pre_approved_limit, st.monthly_salary,
                  st.emi_amount)

\* session st holds amount (in paise) as one of its amounts
HoldsAmount(st, amount) ==
    \/ st.loan_amount * 100 = amount
    \/ st.pre_approved_limit * 100 = amount
    \/ st.monthly_salary * 100 = amount
    \/ st.emi_amount = amount

\* C13 as stated: a turn in which underwriting decides ends routed by the status:
\* approved with the sanction handler, needs_documents with the document handler,
\* rejected with the sales handler and the alternative amount of the decision held
\* in the session. (The stage name the claim gives for the rejected case is left
\* out: the property is about the handler and the amount.)
C13_RoutedByDecision ==
    (connected /\ routed_to(state) = "underwriting" /\ Truthy(state.credit_score))
        => \A heard \in Offered(state), env \in TurnEnvs("underwriting") :
              LET turn == process_message(state, heard, env)
                  made == decision_of(state, turn.state.credit_score)
              IN  (env.credit = "ok" /\ ~turn.raised)
                     => /\ turn.state.application_status = "approved"
                             => turn.state.current_stage = "sanction"
                        /\ turn.state.application_status = "needs_documents"
                             => turn.state.next_agent = "document"
                        /\ turn.state.application_status = "rejected"
                             => /\ turn.state.next_agent = "sales"
                                /\ HoldsAmount(turn.state, made.alternative_amount)

\* C14 as stated: an underwriting turn of a session that holds no PAN, with none
\* in the utterance, makes no lookup and no decision: whatever the bureau would do,
\* the turn completes and leaves the session in underwriting with handler
\* underwriting, awaiting the PAN, its status as it was.
C14_NoLookupWithoutPan ==
    (connected /\ routed_to(state) = "underwriting" /\ state.pan_number = NoneStr)
        => \A heard \in Offered(state), env \in TurnEnvs("underwriting") :
              extract_pan(heard.text) = NoneStr
                 => LET turn == process_message(state, heard, env)
                    IN  /\ ~turn.raised
                        /\ turn.state.current_stage = "underwriting"
                        /\ turn.state.next_agent = "underwriting"
                        /\ turn.state.awaiting_pan
                        /\ turn.state.application_status = state.application_status

\* C14, amended: every session that reaches underwriting holds a stored credit
\* score and no PAN, and its underwriting turn makes the lookup by e-mail at once:
\* a lookup that raises aborts the turn, an unavailable bureau leaves the session
\* in underwriting with its status as it was, and an answer of the bureau yields
\* the status of the decision for the reported score; the turn never asks for
\* the PAN.
C14_LookupByEmail ==
    (connected /\ routed_to(state) = "underwriting")
        => /\ Truthy(state.credit_score)
           /\ state.pan_number = NoneStr
           /\ \A heard \in Offered(state), env \in TurnEnvs("underwriting") :
                 LET turn == process_message(state, heard, env)
                 IN  /\ env.credit = "raise" => turn.raised
                     /\ env.credit = "unavailable"
                          => /\ ~turn.raised
                             /\ turn.state.next_agent = "underwriting"
                             /\ turn.state.application_status = state.application_status
                     /\ (env.credit = "ok" /\ ~turn.raised)
                          => /\ turn.state.application_status
                                  = decision_of(state, turn.state.credit_score).status
                             /\ turn.state.credit_rating
                                  = get_rating(turn.state.credit_score)
                     /\ ~turn.raised => ~turn.state.awaiting_pan

\* underwriting rejected a session that holds no PAN
C14_Witness ==
    /\ state.current_stage = "underwriting"
    /\ state.pan_number = NoneStr
    /\ state.credit_rating # NoneStr
    /\ state.application_status = "rejected"
    /\ state.next_agent = "sales"

\* the CRM knows the customer of session st and reports the KYC as complete
KycComplete(st) ==
    is_mock_email(st.customer_email) /\ get_customer_by_email(st.customer_email).kyc_verified

\* C15: a verification turn whose KYC lookup returns ends with handler underwriting
\* when the lookup finds the customer with kyc_verified true, and with handler
\* document and application_status needs_documents when it finds the customer
\* with kyc_verified false or finds no customer.
C15_VerificationOutcome ==
    (connected /\ routed_to(state) = "verification")
        => \A heard \in Offered(state), env \in TurnEnvs("verification") :
              env.kyc = "ok"
                 => LET turn == process_message(state, heard, env)
                    IN  /\ ~turn.raised
                        /\ KycComplete(state)
                             => /\ turn.state.next_agent = "underwriting"
                                /\ turn.state.kyc_verified
                        /\ ~KycComplete(state)
                             => /\ turn.state.next_agent = "document"
                                /\ turn.state.application_status = "needs_documents"
                                /\ ~turn.state.kyc_verified

\* verification sent a customer the CRM does not vouch for to the documents
C15_Witness ==
    /\ state.current_stage = "verification"
    /\ state.next_agent = "document"
    /\ state.application_status = "needs_documents"
    /\ ~state.kyc_verified

(***************************************************************************)
(* Properties of the sales handler (Spec).                                 *)
(***************************************************************************)

\* the session as the sales agent finds it in a turn on utterance heard: the
\* session holding the message, after the master agent's updates when the master
\* hands over in the turn
SalesSession(st, heard, env) ==
    IF routed_to(st) = "sales" THEN [st EXCEPT !.user_message = heard.text]
    ELSE Update([st EXCEPT !.user_message = heard.text],
                master_run([st EXCEPT !.user_message = heard.text], heard, env.llm))

\* the outcome of the call of the language model that the sales agent makes
SalesLlm(st, env) == IF routed_to(st) = "sales" THEN env.llm ELSE env.llm2

\* the sales agent runs in a turn of session st
SalesRuns(st, heard, env) ==
    \/ routed_to(st) = "sales"
    \/ /\ routed_to(st) = "master"
       /\ SalesSession(st, heard, env).next_agent = "sales"
       /\ SalesSession(st, heard, env).bot_response = ""

\* the run of the sales agent presents an offer
Presents(run) == ~run.raised /\ "emi_presented" \in DOMAIN run.updates

\* the status of the band of amount for limit
Band(amount, limit) ==
    IF amount <= limit THEN "pre_approved"
    ELSE IF amount <= 2 * limit THEN "needs_documents"
    ELSE "needs_negotiation"

\* the offer in updates u to session st quotes rate, tenure and EMI and is in the
\* band of its amount for limit
OfferFor(st, said, u, limit) ==
    /\ u.emi_presented
    /\ Truthy(u.loan_amount)
    /\ u.interest_rate = calculate_interest_rate(u.loan_amount, st)
    /\ Truthy(u.tenure_months)
    /\ u.tenure_months = IF Truthy(said.tenure) THEN said.tenure
                         ELSE IF Truthy(st.tenure_months) THEN st.tenure_months
                         ELSE suggest_tenure(u.loan_amount, Or(st.monthly_salary, 50000))
    /\ u.emi_amount = emi_of(u.loan_amount, u.interest_rate, u.tenure_months)
    /\ u.emi_amount > 0
    /\ u.application_status = Band(u.loan_amount, limit)

C17_AgreementRouting ==
    connected
        => \A heard \in Offered(state), env \in TurnEnvs(routed_to(state)) :
              LET before == SalesSession(state, heard, env)
                  turn == process_message(state, heard, env)
              IN  (SalesRuns(state, heard, env) /\ heard.sales.intent = "agreement")
                    => /\ ~turn.raised
                       /\ IF before.emi_presented /\ Truthy(before.loan_amount)
                          THEN IF before.application_status = "needs_documents"
                               THEN /\ turn.state.current_stage = "document_collection"
                                    /\ turn.state.next_agent = "document"
                               ELSE /\ turn.state.current_stage = "verification"
                                    /\ turn.state.next_agent = "verification"
                          ELSE turn.state.next_agent = "sales"

\* a customer offered an amount above the limit agreed and was sent to the
\* document agent
C17_Witness ==
    /\ state.user_message = "yes"
    /\ state.emi_presented
    /\ state.application_status = "needs_documents"
    /\ state.current_stage = "document_collection"
    /\ state.next_agent = "document"
    /\ state.pending_documents = <<>>

(***************************************************************************)
(* Properties of the documents (RequiredSpec, Spec).                       *)
(***************************************************************************)

\* the members of a list
Members(list) == {list[i] : i \in DOMAIN list}

\* C18: the documents required are aadhaar and pan, and salary_slip exactly when
\* the amount is above the limit, and bank_statement exactly when the amount is
\* above one and a half times the limit, each listed once; so bank_statement is
\* never required without salary_slip.
C18_RequiredDocuments ==
    decision.result # <<>>
        => LET amount == decision.args.loan_amount
               limit == decision.args.pre_approved
               required == Members(decision.result)
           IN  /\ required \subseteq valid_types
               /\ Cardinality(required) = Len(decision.result)
               /\ {"aadhaar", "pan"} \subseteq required
               /\ "salary_slip" \in required <=> amount > limit
               /\ "bank_statement" \in required <=> 2 * (amount - limit) > limit
               /\ "bank_statement" \in required => "salary_slip" \in required

\* an amount just above one and a half times an odd limit requires all four
\* documents
C18_Witness ==
    /\ decision.args.pre_approved = 300001
    /\ decision.args.loan_amount = 450002
    /\ decision.result = <<"aadhaar", "pan", "salary_slip", "bank_statement">>

\* C19: after every turn of the document agent the pending documents are the
\* required documents minus the uploaded documents, and the session is with
\* underwriting exactly when no document is pending; otherwise it stays in
\* document_collection with the document agent.
C19_PendingIsRequiredMinusUploaded ==
    (connected /\ routed_to(state) = "document")
        => \A heard \in Offered(state), env \in TurnEnvs("document") :
              LET turn == process_message(state, heard, env)
                  pending == Members(turn.state.pending_documents)
              IN  ~turn.raised
                    => /\ pending = Members(turn.state.required_documents) \ uploaded
                       /\ IF pending = {}
                          THEN /\ turn.state.current_stage = "underwriting"
                               /\ turn.state.next_agent = "underwriting"
                          ELSE /\ turn.state.current_stage = "document_collection"
                               /\ turn.state.next_agent = "document"

\* C20: while the amount and the required documents of the session stay the
\* same the pending documents never grow, and the upload of a pending document
\* removes that document, and no other, from the pending documents of the session.
C20_PendingShrinksByUpload ==
    [][/\ (/\ state.required_documents # <<>>
           /\ state'.loan_amount = state.loan_amount)
          => Members(state'.pending_documents) \subseteq Members(state.pending_documents)
       /\ \A document_type \in Members(state.pending_documents) :
             uploaded' = uploaded \cup {document_type} /\ document_type \notin uploaded
               => Members(state'.pending_documents)
                    = Members(state.pending_documents) \ {document_type}]_vars

(***************************************************************************)
(* Properties of the onboarding dialogue (Spec).                           *)
(***************************************************************************)

\* the sub-step after step in the order name, phone, age, done; the session
\* holds None as its step once the dialogue is done
StepAfter(step) ==
    IF step = "name" THEN "phone" ELSE IF step = "phone" THEN "age" ELSE NoneStr

\* the profile fields that the dialogue captures
Profile(st) == <<st.customer_name, st.customer_phone, st.customer_age>>

\* C21: a turn of a session that needs onboarding either leaves the sub-step,
\* the stage and the captured profile as they were, or moves the sub-step to the
\* next one in the order name, phone, age, done; a session that does not need
\* onboarding keeps its sub-step, so that no sub-step is skipped, repeated after a
\* success or visited again.
C21_OnboardingStepByStep ==
    [][TurnStep
         => IF state.needs_onboarding
            THEN \/ /\ state'.onboarding_step = state.onboarding_step
                    /\ state'.current_stage = state.current_stage
                    /\ state'.needs_onboarding
                    /\ Profile(state') = Profile(state)
                 \/ /\ state'.onboarding_step = StepAfter(state.onboarding_step)
                    /\ state'.needs_onboarding = (state.onboarding_step # "age")
            ELSE /\ state'.onboarding_step = state.onboarding_step
                 /\ ~state'.needs_onboarding]_vars

\* the guest said "hi" when asked for a name, which was not taken for a name, and
\* then gave the name: the dialogue is at the phone
C21_Witness ==
    /\ state.is_guest
    /\ state.needs_onboarding
    /\ state.onboarding_step = "phone"
    /\ state.customer_name = "Ravi Kumar"
    /\ script_pos = OffScript

\* a phone number as the dialogue stores it: +91- and ten digits, the first of
\* which is 6 to 9
ValidPhone(phone) ==
    /\ Len(phone) = 14
    /\ SubSeq(phone, 1, 4) = "+91-"
    /\ Ch(phone, 5) \in {"6", "7", "8", "9"}
    /\ \A i \in 6..14 : IsDigit(Ch(phone, i))

\* the session was opened for a customer who needed onboarding
OpenedForOnboarding ==
    \E customer \in ResolvedCustomers :
        customer.needs_onboarding /\ customer.email = state.customer_email

\* C22: the onboarding flag is cleared, and the stage leaves onboarding, only in
\* a turn at the age sub-step whose message holds an age from 18 to 99, and the
\* stage is then greeting; and a session opened for onboarding that has left it
\* holds a valid phone and a valid age.
C22_LeavesOnboardingAtAge ==
    [][/\ (TurnStep /\ \/ state.needs_onboarding /\ ~state'.needs_onboarding
                       \/ state.current_stage = "onboarding"
                            /\ state'.current_stage # "onboarding")
          => /\ state.onboarding_step = "age"
             /\ extract_age(Strip(state'.user_message)) \in 18..99
             /\ state'.customer_age = extract_age(Strip(state'.user_message))
             /\ ~state'.needs_onboarding
             /\ state'.current_stage = "greeting"
       /\ (OpenedForOnboarding' /\ ~state'.needs_onboarding)
          => /\ ValidPhone(state'.customer_phone)
             /\ state'.customer_age \in 18..99]_vars

\* the user unknown so far, who was asked for the phone first, has left
\* onboarding
C22_Witness ==
    /\ state.customer_email = "new.user@email.com"
    /\ ~state.needs_onboarding
    /\ state.current_stage = "greeting"
    /\ state.customer_phone = "+91-9876543210"
    /\ state.customer_age = 25

(***************************************************************************)
(* Properties of the stage rules of the master agent (FunctionSpec).       *)
(***************************************************************************)

\* the function named call has computed its result
Computed(call) == decision.args.call = call /\ decision.result # <<>>

\* the result of the call
Result == decision.result[1]

C24_PersuasionRules ==
    (Computed("decide_action") /\ decision.args.stage = "persuasion"
       /\ ~Truthy(decision.args.amount))
        => IF decision.args.intent \in WantsLoan
           THEN Result.current_stage = "offer_presentation" /\ Result.next_agent = "sales"
           ELSE IF decision.args.intent = "hesitation"
           THEN Result.current_stage = "persuasion" /\ Result.next_agent = "master"
           ELSE Result.current_stage = "persuasion"

(***************************************************************************)
(* Properties of the offer calculators (FunctionSpec). Rates are in        *)
(* hundredths of a percent, EMIs in paise.                                 *)
(***************************************************************************)

\* the rate of the rule: 10.5, less 1.5, 1.0 or 0.5 by the score, plus 1.0 for an
\* amount above the limit
RuleRate(amount, credit_score, limit) ==
    1050 - (IF credit_score >= 800 THEN 150 ELSE IF credit_score >= 750 THEN 100
            ELSE IF credit_score >= 700 THEN 50 ELSE 0)
         + (IF amount > limit THEN 100 ELSE 0)

\* the rate quoted for the amount of the call with another score and limit
RateWith(credit_score, limit) ==
    calculate_interest_rate(decision.args.amount,
                            [credit_score |-> credit_score, pre_approved_limit |-> limit])

\* C25: for every amount, every score and every limit, 0 included, the rate
\* quoted is the rate of the rule; a higher score never gives a higher rate, and
\* an amount above the limit never gives a lower rate than the same amount within
\* a limit.
C25_RateRule ==
    (Computed("calculate_interest_rate") /\ decision.args.credit_score # None
       /\ decision.args.pre_approved_limit # None)
        => /\ Result = RuleRate(decision.args.amount, decision.args.credit_score,
                                decision.args.pre_approved_limit)
           /\ \A higher \in RateScores :
                 higher >= decision.args.credit_score
                   => RateWith(higher, decision.args.pre_approved_limit) <= Result
           /\ \A limit \in RateLimits \ {None} :
                 (decision.args.amount > decision.args.pre_approved_limit
                  /\ decision.args.amount <= limit)
                   => RateWith(decision.args.credit_score, limit) <= Result

\* amount / (0.35 * salary * 0.9), truncated: 0.35 * 0.9 is 63 / 200
RawTenure(amount, salary) == (200 * amount) \div (63 * salary)

\* months brought into 12..60
Clamped(months) == IF months < 12 THEN 12 ELSE IF months > 60 THEN 60 ELSE months

C27_TotalAbovePrincipal ==
    Computed("calculate_emi")
        => IF decision.args.rate > 0
           THEN decision.args.tenure * Result > decision.args.principal * 100
           ELSE /\ decision.args.tenure * Result <= decision.args.principal * 100
                /\ decision.args.tenure * (Result + 1) > decision.args.principal * 100

\* C27, amended: for every principal from 1000 rupees on, every rate from 1
\* percent on and every tenure from 1 to 60 months, the tenure times the EMI
\* (rounded to paise) is more than the principal; at rate 0 the EMI is the
\* principal divided by the tenure.
C27_TotalAbovePrincipalFrom1000 ==
    Computed("calculate_emi")
        => IF decision.args.rate > 0
           THEN (decision.args.principal >= 1000 /\ decision.args.rate >= 100
                 /\ decision.args.tenure \in 1..60)
                  => decision.args.tenure * Result > decision.args.principal * 100
           ELSE /\ decision.args.tenure * Result <= decision.args.principal * 100
                /\ decision.args.tenure * (Result + 1) > decision.args.principal * 100

\* 5 lakhs at 9 percent over 60 months: an EMI of 10379.18
C27_Witness ==
    /\ Computed("calculate_emi")
    /\ decision.args.principal = 500000
    /\ decision.args.rate = 900
    /\ decision.args.tenure = 60
    /\ Result = 1037918

(***************************************************************************)
(* Properties of the extractors (FunctionSpec).                            *)
(***************************************************************************)

\* the first of the values that is not None, or None
FirstOf(values) ==
    IF \A i \in DOMAIN values : values[i] = None THEN None
    ELSE values[Least({i \in DOMAIN values : values[i] # None})]

C29_NoMarkerNoAmount ==
    (Computed("extract_amount") /\ decision.args.lakh = None /\ decision.args.k = None
       /\ ~decision.args.marker)
        => IF decision.args.digits THEN Result = decision.args.bare
           ELSE Result = None /\ ~Truthy(Result)

\* C30: the intent detected is that of the first rule the message matches, in
\* the order amount_provided, agreement, loan_need, loan_inquiry, simple_yes,
\* question, hesitation, decline, greeting, closing, general; so a message with
\* an amount, or with a need-word and a loan-word, is never taken for a decline
\* or a hesitation.
C30_FirstRuleWins ==
    Computed("detect_intent")
        => /\ Result = decision.args.first_rule
           /\ (decision.args.amount \/ decision.args.need_and_loan)
                 => Result \notin {"decline", "hesitation"}

\* C33: a conversation is marked completed only after should_end became true; it
\* is marked abandoned when the connection drops, and the session then keeps the
\* state of its last completed turn; every session whose connection has ended is
\* marked completed or abandoned, never left active.
C33_EndedIsMarked ==
    /\ [](conversation_status = "completed" => state.should_end)
    /\ [][(conversation_status' = "abandoned" /\ conversation_status # "abandoned")
             => (connected /\ ~connected' /\ state' = state)]_vars
    /\ [](~connected => conversation_status \in {"completed", "abandoned"})

\* C34: in every state of a session, application_status = approved implies that
\* the credit score of the session is at least 700 and that its loan terms
\* satisfy an approval rule: the amount is within the pre-approved limit, or it
\* is within twice the limit with a known salary and an EMI of at most half the
\* salary. No sequence of turns approves a session with a score below 700.
C34_ApprovedIsEligible ==
    state.application_status = "approved"
        => /\ state.credit_score # None /\ state.credit_score >= 700
           /\ state.loan_amount # None /\ state.pre_approved_limit # None
           /\ \/ state.loan_amount <= state.pre_approved_limit
              \/ /\ state.loan_amount <= 2 * state.pre_approved_limit
                 /\ Truthy(state.monthly_salary) /\ state.monthly_salary > 0
                 /\ state.emi_amount # None
                 /\ state.emi_amount * 2 <= state.monthly_salary * 100

\* a session was approved by underwriting for an amount within its limit
C34_Witness ==
    /\ state.application_status = "approved"
    /\ state.credit_score = 782
    /\ state.loan_amount = 500000
    /\ state.pre_approved_limit = 500000

\* C35: in every state of a session, a handler among verification, document,
\* underwriting, sanction and completed implies that an offer has been presented:
\* emi_presented is true and loan_amount, interest_rate, tenure_months (at
\* least 1) and emi_amount are set.
C35_OfferBeforeKyc ==
    state.next_agent \in {"verification", "document", "underwriting", "sanction", "completed"}
        => /\ state.emi_presented
           /\ state.loan_amount # None
           /\ state.interest_rate # None
           /\ state.tenure_months # None /\ state.tenure_months >= 1
           /\ state.emi_amount # None

\* a session is in verification with the offer it agreed to
C35_Witness ==
    /\ state.next_agent = "verification"
    /\ state.emi_presented
    /\ state.loan_amount = 500000
    /\ state.tenure_months >= 1
    /\ state.emi_amount # None

\* C36: once next_agent has left master for a worker handler, no later turn of
\* the session is handled by the master handler and the stage never returns to
\* onboarding, greeting, discovery or persuasion; and loan_amount, once set, is
\* never replaced for the rest of the session.
C36_HandlerOneWay ==
    /\ [][state.next_agent # "master"
            => /\ state'.next_agent # "master"
               /\ routed_to(state') # "master"
               /\ state'.current_stage \notin MasterStages]_vars
    /\ [][state.loan_amount # None => state'.loan_amount = state.loan_amount]_vars

\* a session that was handed to sales has gone on to verification, and a later
\* utterance naming another amount has left its amount alone
C36_Witness ==
    /\ state.next_agent = "verification"
    /\ state.loan_amount = 1200000
    /\ state.user_message = "I need a car loan of 5 lakhs"

\* C37: document collection is not a trap: a session with handler document whose
\* required documents have all been uploaded leaves document_collection for
\* underwriting on its next turn (so that uploading what is pending and sending
\* an utterance takes every such session to underwriting).
C37_LeavesDocumentsWhenUploaded ==
    [][(/\ TurnStep
        /\ routed_to(state) = "document"
        /\ state.required_documents # <<>>
        /\ Members(state.required_documents) \subseteq uploaded)
          => /\ state'.next_agent = "underwriting"
             /\ state'.current_stage # "document_collection"]_vars

\* C38: for every state of a session, a pre-approved limit of 0 included, if the
\* sales handler has classed the amount in the instant band (application_status
\* pre_approved), then for a credit score of at least 700, that of the session
\* or one the bureau reports, the underwriting decision on the same state is
\* approved: the two handlers use the same pre-approved limit.
C38_BandAgreesWithUnderwriting ==
    state.application_status = "pre_approved"
        => \A credit_score \in {score \in BureauScores \cup {state.credit_score} : score >= 700} :
              make_decision(credit_score, state.loan_amount, state.pre_approved_limit,
                            state.monthly_salary, state.emi_amount).status = "approved"

\* the turns an approved session in state st still takes to end: none once
\* should_end is set, one from handler completed, two from handler sanction
TurnsToEnd(st) ==
    IF st.should_end THEN 0
    ELSE IF st.next_agent = "completed" THEN 1
    ELSE IF st.next_agent = "sanction" THEN 2
    ELSE 4

\* C39: once application_status is approved it stays approved, and as long as
\* the user keeps sending utterances the session reaches should_end = true
\* within at most three further turns, whether the letter is generated or not:
\* an approved session is at most three turns from its end, and every turn
\* brings it nearer.
C39_ApprovedEndsSoon ==
    /\ [](state.application_status = "approved" => TurnsToEnd(state) <= 3)
    /\ [][state.application_status = "approved"
            => state'.application_status = "approved"]_vars
    /\ [][(state.application_status = "approved" /\ TurnStep)
            => TurnsToEnd(state') < TurnsToEnd(state)]_vars

\* an approved session whose letter could not be generated has ended
C39_Witness ==
    /\ state.application_status = "approved"
    /\ state.sanction_letter_url = NoneStr
    /\ state.should_end
    /\ conversation_status = "completed"

\* the session has processed no utterance yet
Opened == state.user_message = "" /\ script_pos = 0

\* C40: in every state of a session needs_onboarding is true exactly when
\* current_stage is onboarding, and while it is true onboarding_step is one of
\* name, phone, age; a session starts in onboarding exactly when it is that of
\* a guest, of a newly created user (who has no phone and no age) or of an
\* existing customer missing phone or age, and in greeting otherwise.
C40_OnboardingFlagAndStage ==
    /\ state.needs_onboarding <=> state.current_stage = "onboarding"
    /\ state.needs_onboarding => state.onboarding_step \in {"name", "phone", "age"}
    /\ Opened
         => /\ state.current_stage \in {"onboarding", "greeting"}
            /\ state.current_stage = "onboarding"
                 <=> \/ state.is_guest
                     \/ state.customer_phone = NoneStr
                     \/ state.customer_age = None

\* an existing customer without an age on record has been asked for it, has
\* given it and has left onboarding
C40_Witness ==
    /\ state.customer_email = "dev.mehta@email.com"
    /\ ~state.needs_onboarding
    /\ state.current_stage = "greeting"
    /\ state.customer_age = 25

(***************************************************************************)
(* Properties of connections side by side (SessionsSpec).                  *)
(***************************************************************************)

\* the turns of a connection that are being processed: accepted from the socket
\* and not finished
InFlight(session) == session.accepted - Len(session.done)

\* C31: the turns of one session are processed strictly one after the other: an
\* utterance is accepted from the socket only when the previous turn of the
\* session has finished (extraction, decision, calls of the collaborators and
\* update of the state), and two turns of one session are never in flight
\* together, even when the client sends while a turn is being processed.
C31_TurnsSequential ==
    /\ [](\A s \in SessionIds :
             /\ InFlight(sessions[s]) \in {0, 1}
             /\ InFlight(sessions[s]) = 1 <=> sessions[s].turn # <<>>)
    /\ [][\A s \in SessionIds :
             sessions'[s].accepted # sessions[s].accepted
                => /\ InFlight(sessions[s]) = 0
                   /\ sessions[s].turn = <<>>
                   /\ sessions'[s].accepted = sessions[s].accepted + 1]_vars

\* the client has sent its second and third message while the first turn is
\* being processed
C31_Witness ==
    \E s \in SessionIds :
        /\ sessions[s].pc = "second"
        /\ sessions[s].done = <<>>
        /\ Len(sessions[s].socket) = 2

\* the state of a session that processes turns i.. of turns alone, from state st
RECURSIVE Replay(_, _, _)
Replay(st, turns, i) ==
    IF i > Len(turns) THEN st
    ELSE Replay(process_message(st, heard_of(turns[i].text), turns[i].env).state, turns, i + 1)

====
